---- MODULE Spec2Model ----
\* Request execution engine of the SpecStory TypeScript SDK (src/src/http.ts,
\* src/src/errors.ts, src/src/constants.ts): HTTPClient.request,
\* HTTPClient.requestWithHeaders, the retry loops of performRequest and
\* performRequestWithHeaders, the pending-request table and the error
\* classifier, as a state machine over logical calls, the promises they wait
\* on and the calls that reach the endpoint.
EXTENDS Integers, Sequences, FiniteSets, TLC

\* ---------------------------------------------------------------- bounds

\* Number of logical calls issued concurrently through one client (Spec).
NumCalls == 3

\* Largest per-call `retries` override tried by the single-call specification.
MaxRetriesOverride == 2

\* ------------------------------------------------------ program constants

DEFAULT_TIMEOUT_MS == 30000
DEFAULT_MAX_RETRIES == 3
IDEMPOTENT_METHODS == {"GET", "PUT", "DELETE", "HEAD"}
RETRY_STATUS_CODES == {408, 429, 500, 502, 503, 504}

\* RequestOptions.method
Methods == {"GET", "POST", "PUT", "DELETE", "HEAD", "PATCH"}

\* ------------------------------------------------------- optional values

\* A JavaScript value that may be undefined: <<>> is undefined, <<v>> is v.
Undefined == <<>>
Some(v) == <<v>>

\* a ?? b
Nullish(a, b) == IF a = Undefined THEN b ELSE a[1]

\* Truthiness of an optional string: undefined and "" are falsy.
Truthy(s) == s # Undefined /\ s # Some("")

\* -------------------------------------------------------------- requests

\* HTTPClientConfig of the client the calls go through.
config ==
  [baseUrl |-> <<"https://cloud.specstory.com">>, timeoutMs |-> DEFAULT_TIMEOUT_MS]

\* `${this.config.baseUrl}${options.path}`: strings are sequences of tokens.
url(o) == config.baseUrl \o o.path

\* Mutant of timeoutMs: the per-call override is ignored.
timeoutMs_ConfigOnly(o) == config.timeoutMs

\* options.timeoutMs ?? this.config.timeoutMs
timeoutMs(o) == Nullish(o.timeoutMs, config.timeoutMs)

\* Mutant of maxRetries: the per-call override is ignored.
maxRetries_DefaultOnly(o) == DEFAULT_MAX_RETRIES

\* options.retries ?? DEFAULT_MAX_RETRIES
maxRetries(o) == Nullish(o.retries, DEFAULT_MAX_RETRIES)

\* Mutant of requestKey: both functions use the key `${method}:${url}`.
requestKey_NoSuffix(v, o) == <<o.method, ":">> \o (config.baseUrl \o o.path)

\* The key of the pending-request table: `${method}:${url}` for request(),
\* `${method}:${url}:with-headers` for requestWithHeaders().
requestKey(v, o) ==
  <<o.method, ":">> \o url(o) \o (IF v = "with-headers" THEN <<":with-headers">> ELSE <<>>)

\* Mutant of deduplicated: every method goes through the pending-request table.
deduplicated_Always(o) == TRUE

\* `if (options.method === 'GET')`: the call goes through the pending-request table.
deduplicated(o) == o.method = "GET"

\* Mutant of requestHeaders: the caller's headers are not sent.
requestHeaders_None(o) == [ifNoneMatch |-> Undefined, idempotencyKey |-> Undefined]

\* The headers of the fetch that the caller's options decide: `...options.headers`
\* (here the If-None-Match validator, if any) and Idempotency-Key, set when the
\* key is truthy.
requestHeaders(o) ==
  [ifNoneMatch |-> o.headers,
   idempotencyKey |-> IF Truthy(o.idempotencyKey) THEN o.idempotencyKey ELSE Undefined]

\* Mutant of shouldRetry: POST is taken for idempotent as well.
shouldRetry_WithPost(method) == method \in IDEMPOTENT_METHODS \cup {"POST"}

\* this.shouldRetry(method)
shouldRetry(method) == method \in IDEMPOTENT_METHODS

\* response.ok
ok(status) == status >= 200 /\ status <= 299

\* Mutant of retryOnStatus: every status from 400 on is retried.
retryOnStatus_AnyError(o, attempt, status) == attempt < maxRetries(o) /\ status >= 400

\* Mutant of retryOnStatus: a retryable status is retried on idempotent methods only.
retryOnStatus_IdempotentOnly(o, attempt, status) ==
  /\ attempt < maxRetries(o)
  /\ \/ (status \in RETRY_STATUS_CODES /\ shouldRetry(o.method))
     \/ (o.method = "POST" /\ Truthy(o.idempotencyKey) /\ status >= 500)

\* The condition under which a non-2xx response is followed by a retry.
retryOnStatus(o, attempt, status) ==
  /\ attempt < maxRetries(o)
  /\ \/ status \in RETRY_STATUS_CODES
     \/ (o.method = "POST" /\ Truthy(o.idempotencyKey) /\ status >= 500)

\* The condition under which a thrown non-SDK error is followed by a retry.
retryOnThrow(o, attempt) == attempt < maxRetries(o) /\ shouldRetry(o.method)

\* ---------------------------------------------------------------- errors

\* ErrorContext built at the point of failure (method, url, retryCount).
Context(o, retryCount) ==
  [method |-> o.method, url |-> url(o), retryCount |-> retryCount, requestId |-> Undefined]

\* A raw (non-SDK) exception: what fetch or response.json() rejects with.
RawError(name) == [sdk |-> FALSE, name |-> name]

\* An SDKError subclass instance.
SDKError(name, status, message, extra, context) ==
  [sdk |-> TRUE, name |-> name, status |-> status, message |-> message,
   extra |-> extra, context |-> context]

\* The response headers SDKError.fromResponse reads: x-request-id as a string,
\* retry-after as the sequence of its digits.
Headers(requestId, retryAfter) == [requestId |-> requestId, retryAfter |-> retryAfter]

\* A response with neither an x-request-id nor a retry-after header.
NoHeaders == Headers(Undefined, Undefined)

\* `requestId || context?.requestId` with requestId = header || undefined: the
\* header unless it is missing or empty, then the context's own request id.
errorContext(headers, context) ==
  [context EXCEPT !.requestId = IF Truthy(headers.requestId) THEN headers.requestId ELSE @]

\* parseInt(text, 10) of a decimal numeral given as its sequence of digits.
RECURSIVE parseInt(_)
parseInt(digits) ==
  IF digits = <<>> THEN 0
  ELSE 10 * parseInt(SubSeq(digits, 1, Len(digits) - 1)) + digits[Len(digits)]

\* `retryAfter ? parseInt(retryAfter, 10) : undefined`
retryAfterSeconds(header) ==
  IF header # Undefined /\ header[1] # <<>> THEN Some(parseInt(header[1])) ELSE Undefined

\* Mutant of RetryAfterDate: the instant is the header's number of milliseconds.
RetryAfterDate_Millis(seconds, t) ==
  IF seconds # Undefined /\ seconds[1] # 0 THEN Some(t + seconds[1]) ELSE Undefined

\* RateLimitError's retryAfter: `retryAfterSeconds ? new Date(Date.now() +
\* retryAfterSeconds * 1000) : undefined`, as milliseconds since the epoch.
RetryAfterDate(seconds, t) ==
  IF seconds # Undefined /\ seconds[1] # 0 THEN Some(t + seconds[1] * 1000) ELSE Undefined

\* Mutant of fromResponse: 501 is taken for a server error.
fromResponse_Any5xx(status, headers, context, t) ==
  IF status >= 500
  THEN SDKError("ServerError", Some(status), <<"Server error: ", ToString(status)>>,
                Undefined, errorContext(headers, context))
  ELSE SDKError("UnknownError", Some(status), <<"Unexpected error: ", ToString(status)>>,
                Undefined, errorContext(headers, context))

\* SDKError.fromResponse(response, context) for a response with this status and
\* these headers, classified at time t.
fromResponse(status, headers, context, t) ==
  CASE status = 400 ->
         SDKError("ValidationError", Some(400), <<"The request was invalid">>, Undefined,
                  errorContext(headers, context))
    [] status = 401 ->
         SDKError("AuthenticationError", Some(401), <<"Invalid API key">>, Undefined,
                  errorContext(headers, context))
    [] status = 403 ->
         SDKError("PermissionError", Some(403),
                  <<"You do not have permission to access this resource">>, Undefined,
                  errorContext(headers, context))
    [] status = 404 ->
         SDKError("NotFoundError", Some(404),
                  <<"The requested resource does not exist">>, Undefined,
                  errorContext(headers, context))
    [] status = 429 ->
         SDKError("RateLimitError", Some(429), <<"Rate limit exceeded">>,
                  RetryAfterDate(retryAfterSeconds(headers.retryAfter), t),
                  errorContext(headers, context))
    [] status \in {500, 502, 503, 504} ->
         SDKError("ServerError", Some(status), <<"Server error: ", ToString(status)>>,
                  Undefined, errorContext(headers, context))
    [] OTHER ->
         SDKError("UnknownError", Some(status), <<"Unexpected error: ", ToString(status)>>,
                  Undefined, errorContext(headers, context))

\* new TimeoutError(`Request timed out after ${timeoutMs}ms`, timeoutMs, context)
TimeoutError(ms, context) ==
  SDKError("TimeoutError", Undefined,
           <<"Request timed out after ", ToString(ms), "ms">>, Some(ms), context)

\* new NetworkError(`Request failed: ${lastError.message}`, lastError, context)
NetworkError(cause, context) ==
  SDKError("NetworkError", Undefined, <<"Request failed: ", cause.name>>, Some(cause), context)

\* new NetworkError(`Request failed after ${maxRetries + 1} attempts`, lastError, ...)
ExhaustedError(o, lastError) ==
  SDKError("NetworkError", Undefined,
           <<"Request failed after ", ToString(maxRetries(o) + 1), " attempts">>,
           lastError, Context(o, maxRetries(o) + 1))

\* -------------------------------------------------------------- promises

Pending == [state |-> "pending"]
Fulfilled(value) == [state |-> "fulfilled", value |-> value]
Rejected(error) == [state |-> "rejected", error |-> error]

\* ------------------------------------------------------------------- maps

\* Mutant of MapDelete: the whole table is emptied.
MapDelete_Clear(m, k) == <<>>

\* Mutant of MapSet: the pending promise is not recorded.
MapSet_Dropped(m, k, x) == m

\* Map.prototype.set / Map.prototype.delete on the pending-request table.
MapSet(m, k, x) == [y \in DOMAIN m \cup {k} |-> IF y = k THEN x ELSE m[y]]
MapDelete(m, k) == [y \in DOMAIN m \ {k} |-> m[y]]

\* ---------------------------------------------------------- response cache

\* The elements of a sequence.
Range(seq) == {seq[i] : i \in DOMAIN seq}

\* CacheEntry<T>
CacheEntry(data, etag, timestamp, ttl) ==
  [data |-> data, etag |-> etag, timestamp |-> timestamp, ttl |-> ttl]

\* new LRUCache(options): `cache` is the Map (`keys` its iteration order, the
\* order of insertion), `accessOrder` the use order, oldest first.
LRUCache(options) ==
  [cache |-> <<>>, keys |-> <<>>, accessOrder |-> <<>>,
   maxSize |-> Nullish(options.maxSize, 100),
   defaultTTL |-> Nullish(options.defaultTTL, 60000)]

\* this.cache.has(key), this.cache.size
CacheHas(c, k) == k \in DOMAIN c.cache
CacheSize(c) == Cardinality(DOMAIN c.cache)

\* `Date.now() > entry.timestamp + entry.ttl`
Expired(entry, t) == t > entry.timestamp + entry.ttl

\* array.indexOf(key) (0: not found) and array.splice(index, 1)
IndexOf(seq, k) ==
  IF k \in Range(seq) THEN CHOOSE i \in DOMAIN seq : seq[i] = k /\ \A j \in 1 .. i - 1 : seq[j] # k
  ELSE 0
Splice(seq, i) == [j \in 1 .. Len(seq) - 1 |-> IF j < i THEN seq[j] ELSE seq[j + 1]]

\* `const index = arr.indexOf(key); if (index > -1) arr.splice(index, 1)`
Without(seq, k) == IF IndexOf(seq, k) > 0 THEN Splice(seq, IndexOf(seq, k)) ELSE seq

\* Mutant of CacheDelete: the use order keeps the key.
CacheDelete_KeepOrder(c, k) ==
  [c EXCEPT !.cache = MapDelete(@, k), !.keys = Without(@, k)]

\* LRUCache.delete(key)
CacheDelete(c, k) ==
  [c EXCEPT !.accessOrder = Without(@, k),
            !.cache = MapDelete(@, k),
            !.keys = Without(@, k)]

\* LRUCache.updateAccessOrder(key)
updateAccessOrder(c, k) ==
  IF IndexOf(c.accessOrder, k) > 0
  THEN [c EXCEPT !.accessOrder = Append(Without(@, k), k)]
  ELSE c

\* Mutant of Lookup: an entry expires one tick early.
Lookup_Early(c, k, t) ==
  IF ~CacheHas(c, k) THEN [cache |-> c, entry |-> Undefined]
  ELSE IF t >= c.cache[k].timestamp + c.cache[k].ttl
  THEN [cache |-> CacheDelete(c, k), entry |-> Undefined]
  ELSE [cache |-> c, entry |-> Some(c.cache[k])]

\* The lookup that get, getEntry and has start with, at time t: the entry if it
\* is held and not expired; an expired entry is deleted.
Lookup(c, k, t) ==
  IF ~CacheHas(c, k) THEN [cache |-> c, entry |-> Undefined]
  ELSE IF Expired(c.cache[k], t)
  THEN [cache |-> CacheDelete(c, k), entry |-> Undefined]
  ELSE [cache |-> c, entry |-> Some(c.cache[k])]

\* Mutant of CacheGetEntry: a hit restarts the entry's time-to-live.
CacheGetEntry_Refresh(c, k, t) ==
  LET found == Lookup(c, k, t)
  IN  IF found.entry = Undefined THEN [cache |-> found.cache, ret |-> Undefined]
      ELSE [cache |-> [updateAccessOrder(found.cache, k) EXCEPT !.cache[k].timestamp = t],
            ret |-> found.entry]

\* LRUCache.getEntry(key): the cache afterwards and the value returned.
CacheGetEntry(c, k, t) ==
  LET found == Lookup(c, k, t)
  IN  IF found.entry = Undefined THEN [cache |-> found.cache, ret |-> Undefined]
      ELSE [cache |-> updateAccessOrder(found.cache, k), ret |-> found.entry]

\* LRUCache.get(key)
CacheGet(c, k, t) ==
  LET found == CacheGetEntry(c, k, t)
  IN  [cache |-> found.cache,
       ret |-> IF found.ret = Undefined THEN Undefined ELSE Some(found.ret[1].data)]

\* Mutant of CacheHasLive: has counts as a use.
CacheHasLive_Touch(c, k, t) ==
  LET found == CacheGetEntry(c, k, t)
  IN  [cache |-> found.cache, ret |-> found.ret # Undefined]

\* LRUCache.has(key)
CacheHasLive(c, k, t) ==
  LET found == Lookup(c, k, t)
  IN  [cache |-> found.cache, ret |-> found.entry # Undefined]

\* Mutant of Evict: nothing is evicted.
Evict_Never(c) == c

\* `while (this.cache.size > this.maxSize) { ...shift()...delete(oldestKey) }`
\* up to the point where the loop is left, or where accessOrder is exhausted
\* and further turns change nothing (shift() returns undefined): see Spinning.
RECURSIVE Evict(_)
Evict(c) ==
  IF CacheSize(c) > c.maxSize /\ c.accessOrder # <<>>
  THEN LET oldestKey == Head(c.accessOrder)
       IN  Evict([c EXCEPT !.accessOrder = Tail(@),
                           !.cache = IF oldestKey # <<>> THEN MapDelete(@, oldestKey) ELSE @,
                           !.keys = IF oldestKey # <<>> THEN Without(@, oldestKey) ELSE @])
  ELSE c

\* The eviction loop of set cannot be left: its test holds and shift() has
\* nothing more to return, so no turn changes the Map. The call never returns.
Spinning(c) == CacheSize(c) > c.maxSize /\ c.accessOrder = <<>>

\* LRUCache.set(key, data, {etag, ttl}) at time t
CacheSet(c, k, data, etag, ttl, t) ==
  LET order == IF CacheHas(c, k) THEN Without(c.accessOrder, k) ELSE c.accessOrder
      stored == [c EXCEPT !.cache = MapSet(@, k, CacheEntry(data, etag, t,
                                                           Nullish(ttl, c.defaultTTL))),
                          !.keys = IF CacheHas(c, k) THEN @ ELSE Append(@, k),
                          !.accessOrder = Append(order, k)]
  IN  Evict(stored)

\* LRUCache.clear()
CacheClear(c) == [c EXCEPT !.cache = <<>>, !.keys = <<>>, !.accessOrder = <<>>]

\* A RegExp: `source` is the text it looks for, `global` its g flag and
\* lastIndex the place the next test starts from when the flag is set.
RegExp(source, global) == [source |-> source, global |-> global, lastIndex |-> 0]

\* The places of key (a string as a sequence of tokens) at which re matches
\* when the search starts after `from`.
MatchesFrom(re, k, from) == {i \in DOMAIN k : i > from /\ k[i] = re.source}

\* pattern.test(key): the result, and the pattern afterwards. A global pattern
\* starts at lastIndex, which a match moves to its end and a failure resets.
RegExpTest(re, k) ==
  LET from == IF re.global THEN re.lastIndex ELSE 0
      found == MatchesFrom(re, k, from)
      first == CHOOSE i \in found : \A j \in found : i <= j
  IN  IF found = {} THEN [ret |-> FALSE, pattern |-> [re EXCEPT !.lastIndex = 0]]
      ELSE [ret |-> TRUE,
            pattern |-> IF re.global THEN [re EXCEPT !.lastIndex = first] ELSE re]

\* `for (const key of this.cache.keys()) if (pattern.test(key)) this.delete(key)`
\* over the keys that are left to visit.
RECURSIVE InvalidateOver(_, _, _)
InvalidateOver(c, re, rest) ==
  IF rest = <<>> THEN c
  ELSE LET tested == RegExpTest(re, Head(rest))
       IN  InvalidateOver(IF tested.ret THEN CacheDelete(c, Head(rest)) ELSE c,
                          tested.pattern, Tail(rest))

\* LRUCache.invalidatePattern(pattern)
CacheInvalidatePattern(c, re) == InvalidateOver(c, re, c.keys)

\* --------------------------------------------------------------- state

Calls == 1 .. NumCalls

VARIABLES
  requestQueue,  \* HTTPClient.requestQueue: request key -> the pending promise
  calls,         \* each logical call: where it is in request()/requestWithHeaders()
  ops,           \* each performRequest(WithHeaders) invocation, named by its caller
  net,           \* what the endpoint has seen of each invocation
  cache,         \* Client.cache: the LRUCache object
  now,           \* Date.now()
  returned,      \* the direct cache call made by the latest step and what it returned
  facade,        \* each logical call: the resource method it was made through
  served,        \* what the endpoint put in the response to each invocation
  applied,       \* the function applied by the latest step, its arguments and its value
  otherQueue,    \* HTTPClient.requestQueue of a second Client instance
  otherCache     \* Client.cache of a second Client instance

vars == <<requestQueue, calls, ops, net, cache, now, returned, facade, served, applied,
          otherQueue, otherCache>>

\* The state of the request engine, the state above it, and the second client.
httpVars == <<requestQueue, calls, ops, net>>
otherVars == <<otherQueue, otherCache>>
facadeVars == <<cache, now, returned, facade, served, applied, otherVars>>


\* An entry of the endpoint's log: the status it answered (0: no response was
\* received) and the exception the attempt ended in ("": none).
NoEntry == [status |-> 0, error |-> ""]
Answered(status) == [status |-> status, error |-> ""]
Failed(name) == [status |-> 0, error |-> name]

\* The endpoint's log of an invocation after one more attempt ended: `last` is
\* the latest attempt's entry, `earlier` the set of entries of those before it.
Logged(n, entry) ==
  [n EXCEPT !.inflight = @ - 1,
            !.earlier = IF n.last = NoEntry THEN @ ELSE @ \cup {n.last},
            !.last = entry]

\* A call that has not been issued yet.
IdleCall ==
  [pc |-> "idle", variant |-> "none", options |-> Undefined, promise |-> 0,
   outcome |-> Pending, peers |-> {}]

\* A performRequest invocation that has not been started.
NoOp == [pc |-> "none", attempt |-> 0, lastError |-> Undefined, outcome |-> Pending]

\* The endpoint before it has seen anything of an invocation.
NoNet == [count |-> 0, inflight |-> 0, earlier |-> {}, last |-> NoEntry, sent |-> Undefined]

\* No cache call was made by the latest step.
NoCall == [op |-> "none", key |-> <<>>, ret |-> Undefined, removed |-> {}, first |-> <<>>]

\* CacheOptions of a client constructed without a `cache` option.
DefaultCacheOptions == [maxSize |-> Undefined, defaultTTL |-> Undefined]

\* The request engine of a new client.
InitHTTP ==
  /\ requestQueue = <<>>
  /\ calls = [c \in Calls |-> IdleCall]
  /\ ops = [c \in Calls |-> NoOp]
  /\ net = [c \in Calls |-> NoNet]

\* A call that was not made through a resource method.
NoFacade == [pc |-> "none"]

\* No function was applied by the latest step.
NoApplication == [fn |-> "none"]

\* A second client, constructed like the first: `new HTTPClient(...)` gives it
\* a requestQueue of its own, `new LRUCache(options.cache)` a cache of its own.
InitOther ==
  /\ otherQueue = <<>>
  /\ otherCache = LRUCache(DefaultCacheOptions)

\* The resources of a new client: no call made, no response read.
InitResources ==
  /\ facade = [c \in Calls |-> NoFacade]
  /\ served = [c \in Calls |-> Undefined]
  /\ applied = NoApplication

Init ==
  /\ InitHTTP
  /\ InitResources
  /\ InitOther
  /\ cache = LRUCache(DefaultCacheOptions)
  /\ now = 0
  /\ returned = NoCall

\* ------------------------------------------------- results of an attempt

\* Response headers and parsed body of the response to attempt a of invocation c.
ResponseHeaders(c, a) == [from |-> <<c, a>>]
ResponseBody(c, a) == [type |-> "json", from |-> <<c, a>>]

\* What a 2xx response resolves to: request() returns the bare payload,
\* requestWithHeaders() the {data, headers} pair.
Result(v, data, headers) ==
  IF v = "with-headers" THEN [data |-> data, headers |-> headers] ELSE data

\* The payload of a successful HEAD request.
HeadPayload(status, headers) == [type |-> "head", headers |-> headers, status |-> status]

\* Mutant of loopContinues: the loop test is strict.
loopContinues_Strict(o, attempt) == attempt < maxRetries(o)

\* `for (let attempt = 0; attempt <= maxRetries; attempt++)`
loopContinues(o, attempt) == attempt <= maxRetries(o)

\* Mutant of Catch: an error that is not retried is rethrown as it is.
Catch_Rethrow(o, a, lastError, error) ==
  IF ~error.sdk /\ retryOnThrow(o, a)
  THEN [pc |-> "delay", attempt |-> a, lastError |-> Some(error), outcome |-> Pending]
  ELSE [pc |-> "settled", attempt |-> a, lastError |-> lastError, outcome |-> Rejected(error)]

\* Mutant of Catch: an SDKError is handled like any other thrown error.
Catch_Wrapped(o, a, lastError, error) ==
  IF retryOnThrow(o, a)
  THEN [pc |-> "delay", attempt |-> a, lastError |-> Some(error), outcome |-> Pending]
  ELSE [pc |-> "settled", attempt |-> a, lastError |-> Some(error),
        outcome |-> Rejected(IF error.name = "AbortError"
                             THEN TimeoutError(timeoutMs(o), Context(o, a))
                             ELSE NetworkError(error, Context(o, a)))]

\* The catch block of the retry loop, for error thrown in attempt a: the op's
\* next pc, lastError and outcome.
Catch(o, a, lastError, error) ==
  IF error.sdk
  THEN [pc |-> "settled", attempt |-> a, lastError |-> lastError, outcome |-> Rejected(error)]
  ELSE IF retryOnThrow(o, a)
  THEN [pc |-> "delay", attempt |-> a, lastError |-> Some(error), outcome |-> Pending]
  ELSE [pc |-> "settled", attempt |-> a, lastError |-> Some(error),
        outcome |-> Rejected(IF error.name = "AbortError"
                             THEN TimeoutError(timeoutMs(o), Context(o, a))
                             ELSE NetworkError(error, Context(o, a)))]

\* The head of the retry loop for attempt a: either the attempt's fetch is
\* issued, or the loop is left and the exhausted-retries error is thrown.
LoopHead(o, a, lastError) ==
  IF loopContinues(o, a)
  THEN [pc |-> "fetch", attempt |-> a, lastError |-> lastError, outcome |-> Pending]
  ELSE [pc |-> "settled", attempt |-> a, lastError |-> lastError,
        outcome |-> Rejected(ExhaustedError(o, lastError))]

\* The endpoint's view after the loop head: a fetch that was issued reaches it,
\* with the headers built from the options of the call that runs the loop.
Issue(n, op, o) ==
  IF op.pc = "fetch"
  THEN [n EXCEPT !.count = @ + 1, !.inflight = @ + 1, !.sent = Some(requestHeaders(o))]
  ELSE n

\* Mutant of OnResponse: the HEAD test comes before the 204 test.
OnResponse_HeadFirst(c, v, o, a, lastError, status) ==
  IF ~ok(status)
  THEN IF retryOnStatus(o, a, status)
       THEN [pc |-> "delay", attempt |-> a, lastError |-> lastError, outcome |-> Pending]
       ELSE Catch(o, a, lastError, fromResponse(status, NoHeaders, Context(o, a), now))
  ELSE IF o.method = "HEAD"
  THEN [pc |-> "settled", attempt |-> a, lastError |-> lastError,
        outcome |-> Fulfilled(Result(v, HeadPayload(status, ResponseHeaders(c, a)),
                                     ResponseHeaders(c, a)))]
  ELSE IF status = 204
  THEN [pc |-> "settled", attempt |-> a, lastError |-> lastError,
        outcome |-> Fulfilled(Result(v, Undefined, ResponseHeaders(c, a)))]
  ELSE [pc |-> "json", attempt |-> a, lastError |-> lastError, outcome |-> Pending]

\* What the code does with the response to attempt a once fetch resolved.
OnResponse(c, v, o, a, lastError, status) ==
  IF ~ok(status)
  THEN IF retryOnStatus(o, a, status)
       THEN [pc |-> "delay", attempt |-> a, lastError |-> lastError, outcome |-> Pending]
       ELSE Catch(o, a, lastError, fromResponse(status, NoHeaders, Context(o, a), now))
  ELSE IF status = 204
  THEN [pc |-> "settled", attempt |-> a, lastError |-> lastError,
        outcome |-> Fulfilled(Result(v, Undefined, ResponseHeaders(c, a)))]
  ELSE IF o.method = "HEAD"
  THEN [pc |-> "settled", attempt |-> a, lastError |-> lastError,
        outcome |-> Fulfilled(Result(v, HeadPayload(status, ResponseHeaders(c, a)),
                                     ResponseHeaders(c, a)))]
  ELSE [pc |-> "json", attempt |-> a, lastError |-> lastError, outcome |-> Pending]

\* ---------------------------------------------------------------- actions

\* Observation, not program state: the invocations that are in flight (started
\* and not settled) for a GET of the same URL through the same function, at the
\* moment a GET with options o is issued through function v.
InFlightFor(v, o) ==
  {d \in Calls : /\ o.method = "GET"
                 /\ ops[d].pc \in {"fetch", "json", "delay"}
                 /\ calls[d].variant = v
                 /\ calls[d].options.method = "GET"
                 /\ url(calls[d].options) = url(o)}

\* HTTPClient.request(options) (v = "plain") and
\* HTTPClient.requestWithHeaders(options) (v = "with-headers"), up to the first
\* await: what it does to the request engine, queue being the requestQueue of
\* the HTTPClient it is called on. Calls are issued in the order of their names.
RequestedOn(queue, queueNext, c, v, o) ==
  /\ calls[c].pc = "idle"
  /\ \A d \in Calls : d < c => calls[d].pc # "idle"
  /\ LET key == requestKey(v, o)
         started == LoopHead(o, 0, Undefined)
     IN  IF deduplicated(o) /\ key \in DOMAIN queue
         THEN /\ calls' = [calls EXCEPT ![c] =
                   [pc |-> "adopting", variant |-> v, options |-> o,
                    promise |-> queue[key], outcome |-> Pending,
                    peers |-> InFlightFor(v, o)]]
              /\ queueNext = queue
              /\ UNCHANGED <<ops, net>>
         ELSE /\ calls' = [calls EXCEPT ![c] =
                   [pc |-> IF deduplicated(o) THEN "awaiting" ELSE "adopting",
                    variant |-> v, options |-> o, promise |-> c,
                    outcome |-> Pending, peers |-> InFlightFor(v, o)]]
              /\ ops' = [ops EXCEPT ![c] = started]
              /\ net' = [net EXCEPT ![c] = Issue(@, started, o)]
              /\ queueNext =
                   IF deduplicated(o) THEN MapSet(queue, key, c) ELSE queue

\* The same on the client's own table.
Requested(c, v, o) == RequestedOn(requestQueue, requestQueue', c, v, o)

\* A call of request() or requestWithHeaders() made directly on the HTTPClient.
request(c, v, o) ==
  /\ Requested(c, v, o)
  /\ UNCHANGED facadeVars

\* `await fetch(...)` resolves with a response of the given status.
FetchResolved(c, status) ==
  /\ ops[c].pc = "fetch"
  /\ ops' = [ops EXCEPT ![c] =
       OnResponse(c, calls[c].variant, calls[c].options, @.attempt, @.lastError, status)]
  /\ net' = [net EXCEPT ![c] = Logged(@, Answered(status))]
  /\ UNCHANGED <<requestQueue, calls>>
  /\ UNCHANGED facadeVars

\* `await fetch(...)` rejects: a connection error (TypeError), or the abort
\* issued by the timeout timer (AbortError).
FetchRejected(c, name) ==
  /\ ops[c].pc = "fetch"
  /\ ops' = [ops EXCEPT ![c] =
       Catch(calls[c].options, @.attempt, @.lastError, RawError(name))]
  /\ net' = [net EXCEPT ![c] = Logged(@, Failed(name))]
  /\ UNCHANGED <<requestQueue, calls>>
  /\ UNCHANGED facadeVars

\* `await response.json()` settles: the body parsed, or it was not valid JSON.
JsonSettled(c, parsed) ==
  /\ ops[c].pc = "json"
  /\ LET a == ops[c].attempt
     IN  IF parsed
         THEN /\ ops' = [ops EXCEPT ![c] =
                   [@ EXCEPT !.pc = "settled",
                             !.outcome = Fulfilled(Result(calls[c].variant, ResponseBody(c, a),
                                                          ResponseHeaders(c, a)))]]
              /\ net' = net
         ELSE /\ ops' = [ops EXCEPT ![c] =
                   Catch(calls[c].options, a, @.lastError, RawError("SyntaxError"))]
              /\ net' = [net EXCEPT ![c].last.error = "SyntaxError"]
  /\ UNCHANGED <<requestQueue, calls>>
  /\ UNCHANGED facadeVars

\* `await this.delay(attempt)` is over: `continue`, attempt++, the loop test.
DelayElapsed(c) ==
  /\ ops[c].pc = "delay"
  /\ LET next == LoopHead(calls[c].options, ops[c].attempt + 1, ops[c].lastError)
     IN  /\ ops' = [ops EXCEPT ![c] = next]
         /\ net' = [net EXCEPT ![c] = Issue(@, next, calls[c].options)]
  /\ UNCHANGED <<requestQueue, calls>>
  /\ UNCHANGED facadeVars

\* `await requestPromise` of the call that started the shared operation
\* resumes: the entry is deleted and the result returned or rethrown.
AwaitResumedOn(queue, queueNext, c) ==
  /\ calls[c].pc = "awaiting"
  /\ ops[calls[c].promise].pc = "settled"
  /\ queueNext = MapDelete(queue, requestKey(calls[c].variant, calls[c].options))
  /\ calls' = [calls EXCEPT ![c].pc = "done", ![c].outcome = ops[calls[c].promise].outcome]
  /\ UNCHANGED <<ops, net>>

AwaitResumed(c) ==
  /\ AwaitResumedOn(requestQueue, requestQueue', c)
  /\ UNCHANGED facadeVars

\* Mutant of Adopted: only a fulfilment of the returned promise reaches the
\* caller.
Adopted_FulfilledOnly(c) ==
  /\ calls[c].pc = "adopting"
  /\ ops[calls[c].promise].pc = "settled"
  /\ ops[calls[c].promise].outcome.state = "fulfilled"
  /\ calls' = [calls EXCEPT ![c].pc = "done", ![c].outcome = ops[calls[c].promise].outcome]
  /\ UNCHANGED <<requestQueue, ops, net>>
  /\ UNCHANGED facadeVars

\* The promise a call returned (`return existingRequest`, or the trailing
\* `return this.performRequest(...)`) is adopted by the caller's promise.
Adopted(c) ==
  /\ calls[c].pc = "adopting"
  /\ ops[calls[c].promise].pc = "settled"
  /\ calls' = [calls EXCEPT ![c].pc = "done", ![c].outcome = ops[calls[c].promise].outcome]
  /\ UNCHANGED <<requestQueue, ops, net>>
  /\ UNCHANGED facadeVars


\* ---------------------------------------------------------- specifications

\* RequestOptions of a call.
Options(methods, paths, timeouts, keys, retries, headers) ==
  [method : methods, path : paths, timeoutMs : timeouts, idempotencyKey : keys,
   retries : retries, headers : headers]

\* Spec: NumCalls concurrent calls through one client, as request() or
\* requestWithHeaders(), GET or POST on one path, with `retries: 0`; the
\* endpoint answers 200 (with or without a JSON body) or 503, or the attempt is
\* aborted by its timeout. With `retries: 0` no attempt is followed by a
\* backoff wait, so DelayElapsed is never enabled and is no step of Next.
ConcOptions == Options({"GET", "POST"}, {<<"/a">>}, {Undefined}, {Undefined}, {Some(0)},
                       {Undefined})
ConcStatuses == {200, 503}
ConcFailures == {"AbortError"}

Next ==
  \E c \in Calls :
    \/ \E v \in {"plain", "with-headers"}, o \in ConcOptions : request(c, v, o)
    \/ \E status \in ConcStatuses : FetchResolved(c, status)
    \/ \E name \in ConcFailures : FetchRejected(c, name)
    \/ \E parsed \in BOOLEAN : JsonSettled(c, parsed)
    \/ AwaitResumed(c)
    \/ Adopted(c)

Spec == Init /\ [][Next]_vars

\* SpecExec: one logical call with every method, with and without an
\* idempotency key, timeout and retries overrides, against an endpoint that
\* answers any of the statuses below or lets the attempt fail.
ExecOptions ==
  Options(Methods, {<<"/a">>}, {Undefined, Some(50)}, {Undefined, Some("key-1")},
          {Undefined} \cup {Some(r) : r \in -1 .. MaxRetriesOverride}, {Undefined})
ExecStatuses == {200, 204, 304, 400, 401, 403, 404, 408, 429, 500, 501, 502, 503, 504}
ExecFailures == {"TypeError", "AbortError"}

NextExec ==
  \/ \E v \in {"plain", "with-headers"}, o \in ExecOptions : request(1, v, o)
  \/ \E status \in ExecStatuses : FetchResolved(1, status)
  \/ \E name \in ExecFailures : FetchRejected(1, name)
  \/ \E parsed \in BOOLEAN : JsonSettled(1, parsed)
  \/ DelayElapsed(1)
  \/ AwaitResumed(1)
  \/ Adopted(1)

SpecExec == Init /\ [][NextExec]_vars


\* ------------------------------------------------------------ observations

\* Call c has been issued; c started an invocation of its own; it has settled.
Issued(c) == calls[c].pc # "idle"
HasOp(c) == ops[c].pc # "none"
Settled(c) == ops[c].pc = "settled"

\* The number of attempts of invocation c that have ended, and the 0-based
\* index of the latest of them.
Completed(c) == net[c].count - net[c].inflight
LastIndex(c) == Completed(c) - 1

\* The retry budget of call c as the claims state it: the per-call override,
\* else 3.
Retries(c) == IF calls[c].options.retries = Undefined THEN 3 ELSE calls[c].options.retries[1]

\* The effective timeout of call c as the claims state it: the per-call
\* override, else the client default.
EffectiveTimeout(c) ==
  IF calls[c].options.timeoutMs = Undefined THEN config.timeoutMs
  ELSE calls[c].options.timeoutMs[1]

\* The latest attempt of c was answered, with a non-2xx status / with a 2xx
\* status and a body that was read and parsed / ended in a transport failure.
LastAnswered(c) == net[c].last.status # 0
LastSucceeded(c) == ok(net[c].last.status) /\ net[c].last.error = ""
LastTransportFailed(c) == net[c].last.error \in {"TypeError", "AbortError"}

\* Another attempt follows the latest ended one: the backoff wait is running,
\* or the next fetch is already in flight.
Retrying(c) ==
  \/ ops[c].pc = "delay" /\ net[c].inflight = 0
  \/ ops[c].pc = "fetch" /\ net[c].inflight = 1 /\ net[c].count = Completed(c) + 1

\* The call ended with the latest attempt: it is rejected with an error and no
\* further network call was made.
FailedAtLast(c) ==
  /\ Settled(c)
  /\ ops[c].outcome.state = "rejected"
  /\ net[c].inflight = 0
  /\ ops[c].outcome.error.context.retryCount = LastIndex(c)

\* The typed error class the claims give for a response status.
ClassOf(status) ==
  CASE status = 400 -> "ValidationError"
    [] status = 401 -> "AuthenticationError"
    [] status = 403 -> "PermissionError"
    [] status = 404 -> "NotFoundError"
    [] status = 429 -> "RateLimitError"
    [] status \in {500, 502, 503, 504} -> "ServerError"
    [] OTHER -> "UnknownError"

\* The payload a 2xx response to the latest attempt of c stands for.
SuccessPayload(c) ==
  LET headers == ResponseHeaders(c, LastIndex(c))
      data == IF net[c].last.status = 204 THEN Undefined
              ELSE IF calls[c].options.method = "HEAD"
                   THEN HeadPayload(net[c].last.status, headers)
                   ELSE ResponseBody(c, LastIndex(c))
  IN  IF calls[c].variant = "with-headers" THEN [data |-> data, headers |-> headers]
      ELSE data

\* ------------------------------------------------------------------ claims

\* C2: a call whose endpoint answers 500 on the first N-1 attempts and 2xx on
\* attempt N, N <= retries+1, is not given up on while the 500s last (another
\* attempt follows each of them), returns the payload of attempt N, and the
\* endpoint sees exactly N calls: none is in flight or issued after the success.
C2_RetryUntilSuccess ==
  \A c \in Calls :
    (HasOp(c) /\ net[c].earlier \subseteq {Answered(500)}) =>
      /\ (net[c].last = Answered(500) /\ Completed(c) <= Retries(c)) => Retrying(c)
      /\ (LastSucceeded(c) /\ ops[c].pc # "json") =>
           /\ Settled(c)
           /\ ops[c].outcome = Fulfilled(SuccessPayload(c))
           /\ net[c].inflight = 0
           /\ net[c].count = Completed(c)
           /\ calls[c].pc = "done" => calls[c].outcome = Fulfilled(SuccessPayload(c))

\* C2 witness: a POST without idempotency key under the default retry budget got
\* 500 three times and 200 on the fourth attempt, and returned that payload.
C2_Witness ==
  \E c \in Calls :
    /\ calls[c].pc = "done"
    /\ calls[c].options.method = "POST"
    /\ calls[c].options.retries = Undefined
    /\ net[c].earlier = {Answered(500)}
    /\ net[c].last = Answered(200)
    /\ net[c].count = 4
    /\ calls[c].outcome = Fulfilled(ResponseBody(c, 3))


\* C3: a response with status 400, 401, 403 or 404 is never retried, whatever
\* the method, the retry budget and the idempotency key: the call fails at once
\* with the error classified from that response, no further network call is
\* made, and an endpoint that answers so from the start is called exactly once.
C3_NoRetryOnClientError ==
  \A c \in Calls :
    (HasOp(c) /\ net[c].last.status \in {400, 401, 403, 404}) =>
      /\ FailedAtLast(c)
      /\ net[c].count = Completed(c)
      /\ ops[c].outcome.error.name = ClassOf(net[c].last.status)
      /\ ops[c].outcome.error.status = Some(net[c].last.status)
      /\ net[c].earlier = {} => net[c].count = 1
      /\ calls[c].pc = "done" => calls[c].outcome = ops[c].outcome

\* C3 witness: a PUT with an idempotency key and a retry budget of 2 got 400 on
\* its first attempt and failed with ValidationError after one network call.
C3_Witness ==
  \E c \in Calls :
    /\ calls[c].pc = "done"
    /\ calls[c].options.method = "PUT"
    /\ calls[c].options.idempotencyKey = Some("key-1")
    /\ calls[c].options.retries = Some(2)
    /\ net[c].last = Answered(400)
    /\ net[c].count = 1
    /\ calls[c].outcome.state = "rejected"
    /\ calls[c].outcome.error.name = "ValidationError"

\* The error classes a call may fail with.
TypedErrors ==
  {"NetworkError", "TimeoutError", "ValidationError", "AuthenticationError",
   "PermissionError", "NotFoundError", "RateLimitError", "ServerError", "UnknownError"}

C6_RetryOnStatus ==
  \A c \in Calls :
    (HasOp(c) /\ LastAnswered(c) /\ ~ok(net[c].last.status)) =>
      LET status == net[c].last.status
          retry == /\ LastIndex(c) < Retries(c)
                   /\ \/ status \in {408, 429, 500, 502, 503, 504}
                      \/ /\ calls[c].options.method = "POST"
                         /\ calls[c].options.idempotencyKey # Undefined
                         /\ status >= 500
      IN  /\ retry => Retrying(c)
          /\ ~retry =>
               /\ FailedAtLast(c)
               /\ ops[c].outcome.error.name = ClassOf(status)
               /\ ops[c].outcome.error.status = Some(status)

\* C6 witness: a POST with an idempotency key got 501, which is not in the
\* retryable set, and waits to retry.
C6_Witness ==
  \E c \in Calls :
    /\ HasOp(c)
    /\ calls[c].options.method = "POST"
    /\ calls[c].options.idempotencyKey = Some("key-1")
    /\ net[c].last = Answered(501)
    /\ ops[c].pc = "delay"

\* C7: a POST without an idempotency key, or a PATCH, that receives 429 or a 5xx
\* status is sent to the endpoint exactly once: the response ends the call.
C7_NoRetryOfUnkeyedWrites ==
  \A c \in Calls :
    ( /\ HasOp(c)
      /\ \/ calls[c].options.method = "POST" /\ calls[c].options.idempotencyKey = Undefined
         \/ calls[c].options.method = "PATCH"
      /\ (net[c].last.status = 429 \/ net[c].last.status >= 500) ) =>
      /\ Settled(c)
      /\ net[c].count = 1

\* C8 as stated: a transport failure on attempt i is retried exactly when
\* i < retries and the method is GET, PUT, DELETE or HEAD; otherwise the call
\* fails with Timeout (abort) or Network wrapping the cause; and for POST and
\* PATCH the failure ends the call after exactly one network call.
C8_TransportRetryAsStated ==
  \A c \in Calls :
    (HasOp(c) /\ LastTransportFailed(c)) =>
      LET retry == /\ LastIndex(c) < Retries(c)
                   /\ calls[c].options.method \in {"GET", "PUT", "DELETE", "HEAD"}
      IN  /\ retry => Retrying(c)
          /\ ~retry =>
               /\ FailedAtLast(c)
               /\ net[c].last.error = "AbortError" =>
                    ops[c].outcome.error.name = "TimeoutError"
               /\ net[c].last.error # "AbortError" =>
                    /\ ops[c].outcome.error.name = "NetworkError"
                    /\ ops[c].outcome.error.extra = Some(RawError(net[c].last.error))
          /\ calls[c].options.method \in {"POST", "PATCH"} => net[c].count = 1

\* C8, amended: as above, but for POST and PATCH the first transport failure
\* ends the call with no further network call; that is after exactly one
\* network call when the failure is the outcome of the first attempt (earlier
\* attempts may have been answered with a retryable status).
C8_TransportRetry ==
  \A c \in Calls :
    (HasOp(c) /\ LastTransportFailed(c)) =>
      LET retry == /\ LastIndex(c) < Retries(c)
                   /\ calls[c].options.method \in {"GET", "PUT", "DELETE", "HEAD"}
      IN  /\ retry => Retrying(c)
          /\ ~retry =>
               /\ FailedAtLast(c)
               /\ net[c].last.error = "AbortError" =>
                    ops[c].outcome.error.name = "TimeoutError"
               /\ net[c].last.error # "AbortError" =>
                    /\ ops[c].outcome.error.name = "NetworkError"
                    /\ ops[c].outcome.error.extra = Some(RawError(net[c].last.error))
          /\ calls[c].options.method \in {"POST", "PATCH"} =>
               /\ net[c].count = Completed(c)
               /\ \A e \in net[c].earlier : e.error = ""
               /\ net[c].earlier = {} => net[c].count = 1

\* C8 witness: a POST with an idempotency key was answered 500, retried, and
\* then hit a connection error, which ended the call after two network calls
\* with a NetworkError wrapping it.
C8_Witness ==
  \E c \in Calls :
    /\ calls[c].pc = "done"
    /\ calls[c].options.method = "POST"
    /\ calls[c].options.idempotencyKey = Some("key-1")
    /\ net[c].earlier = {Answered(500)}
    /\ net[c].last = Failed("TypeError")
    /\ net[c].count = 2
    /\ calls[c].outcome.state = "rejected"
    /\ calls[c].outcome.error.name = "NetworkError"


\* C9: the network attempts of one logical call form a strict sequence of at
\* most retries+1 calls (exactly 1 with `retries: 0`): a step issues at most one
\* call, and only when none is in flight; a call after the first is issued only
\* out of the backoff wait that followed a failed attempt.
C9_SequentialAttempts ==
  [][\A c \in Calls :
       /\ net'[c].inflight \in {0, 1}
       /\ net'[c].inflight = 1 <=> ops'[c].pc = "fetch"
       /\ HasOp(c)' => net'[c].count <= Retries(c)' + 1
       /\ (HasOp(c)' /\ calls'[c].options.retries = Some(0)) => net'[c].count = 1
       /\ net'[c].count # net[c].count =>
            /\ net'[c].count = net[c].count + 1
            /\ net[c].inflight = 0
            /\ net[c].count > 0 =>
                 /\ ops[c].pc = "delay"
                 /\ net[c].last # NoEntry
                 /\ ~LastSucceeded(c)]_vars

\* C9 witness: under the default budget a fourth attempt is in flight after
\* three failed ones.
C9_Witness ==
  \E c \in Calls :
    /\ HasOp(c)
    /\ calls[c].options.retries = Undefined
    /\ ops[c].pc = "fetch"
    /\ net[c].count = 4
    /\ net[c].inflight = 1

\* C1: k >= 2 GETs for the same URL through the same function, the later ones
\* issued while the first is in flight: the later calls start no invocation and
\* no network call of their own, wait on the one invocation in flight, which
\* reaches the endpoint once, and observe its outcome, equal to the first
\* caller's.
C1_ConcurrentGetsShareOneOperation ==
  \A d \in Calls :
    (Issued(d) /\ calls[d].peers # {}) =>
      /\ ~HasOp(d)
      /\ net[d].count = 0
      /\ \E c \in Calls : calls[d].peers = {c} /\ calls[d].promise = c
      /\ \A c \in calls[d].peers :
           /\ net[c].count = 1
           /\ calls[d].pc = "done" => (Settled(c) /\ calls[d].outcome = ops[c].outcome)
           /\ (calls[d].pc = "done" /\ calls[c].pc = "done") =>
                calls[d].outcome = calls[c].outcome

\* C1 witness: three requestWithHeaders() GETs, the second and third issued while
\* the first was in flight; one network call; all three got the same payload.
C1_Witness ==
  /\ \A c \in 1 .. 3 : calls[c].pc = "done" /\ calls[c].variant = "with-headers"
  /\ calls[2].peers = {1}
  /\ calls[3].peers = {1}
  /\ net[1].count + net[2].count + net[3].count = 1
  /\ calls[1].outcome.state = "fulfilled"
  /\ calls[2].outcome = calls[1].outcome
  /\ calls[3].outcome = calls[1].outcome

\* C10: a GET issued when no invocation for its URL and function is in flight
\* (none was started, or every one has settled) starts a fresh invocation of
\* its own; it never waits on, nor receives the result of, a settled one.
C10_FreshAfterSettlement ==
  \A d \in Calls :
    (Issued(d) /\ calls[d].options.method = "GET" /\ calls[d].peers = {}) =>
      /\ calls[d].promise = d
      /\ HasOp(d)

\* ------------------------------------------------- concurrent calls, any method

\* SpecWrites: NumCalls concurrent calls on one path with any method, through
\* request() or requestWithHeaders(), with `retries: 0`, against an endpoint that
\* answers 204.
WriteOptions ==
  Options(Methods, {<<"/a">>}, {Undefined}, {Undefined}, {Some(0)}, {Undefined})
WriteStatuses == {204}

NextWrites ==
  \E c \in Calls :
    \/ \E v \in {"plain", "with-headers"}, o \in WriteOptions : request(c, v, o)
    \/ \E status \in WriteStatuses : FetchResolved(c, status)
    \/ AwaitResumed(c)
    \/ Adopted(c)

SpecWrites == Init /\ [][NextWrites]_vars

\* C11: deduplication never applies to a method other than GET: every PUT, POST,
\* PATCH, DELETE and HEAD call runs an invocation of its own that reaches the
\* endpoint, however many calls to the same path are in flight, the
\* pending-request table holds GET keys only, and no step of such a call
\* changes the table.
C11_OnlyGetIsDeduplicated ==
  [][/\ \A c \in Calls :
          (Issued(c)' /\ calls'[c].options.method # "GET") =>
            /\ HasOp(c)'
            /\ calls'[c].promise = c
            /\ net'[c].count = 1
            /\ calls'[c].peers = {}
            /\ calls'[c] # calls[c] => requestQueue' = requestQueue
     /\ \A key \in DOMAIN requestQueue' : key[1] = "GET"]_vars

\* C11 witness: three DELETE calls to the same path through request() are in
\* flight at once, each with its own network call, and the table is empty.
C11_Witness ==
  /\ \A c \in 1 .. 3 :
       /\ Issued(c)
       /\ calls[c].variant = "plain"
       /\ calls[c].options.method = "DELETE"
       /\ ops[c].pc = "fetch"
       /\ net[c].inflight = 1
  /\ requestQueue = <<>>

\* ------------------------------------------------ GETs with their own settings

\* SpecShared: NumCalls concurrent request() GETs of one URL, each with its own
\* timeout override, retry override and If-None-Match header; an attempt is
\* answered 204 or aborted by the timeout timer of the invocation it belongs to.
\* A call either keeps the client's timeout and sends no validator, or overrides
\* the timeout and sends one.
SharedOptions ==
  {o \in Options({"GET"}, {<<"/a">>}, {Undefined, Some(50)}, {Undefined},
                 {Some(0), Some(1)}, {Undefined, Some("etag-1")}) :
     (o.timeoutMs = Undefined) <=> (o.headers = Undefined)}
SharedStatuses == {204}
SharedFailures == {"AbortError"}

NextShared ==
  \E c \in Calls :
    \/ \E o \in SharedOptions : request(c, "plain", o)
    \/ \E status \in SharedStatuses : FetchResolved(c, status)
    \/ \E name \in SharedFailures : FetchRejected(c, name)
    \/ DelayElapsed(c)
    \/ AwaitResumed(c)
    \/ Adopted(c)

SpecShared == Init /\ [][NextShared]_vars

\* C12: a GET d that joined the invocation in flight of call c is governed by
\* c's settings only: d runs no attempt of its own; the shared attempts carry
\* c's headers and number at most c's retries + 1; when the shared invocation
\* times out it does so after c's retries + 1 attempts with c's timeout in the
\* error, and d and c observe that same Timeout error.
C12_JoinerUsesInitiatorSettings ==
  \A d \in Calls :
    (Issued(d) /\ calls[d].peers # {}) =>
      \E c \in Calls :
        /\ c # d
        /\ calls[d].promise = c
        /\ ~HasOp(d)
        /\ net[d].count = 0
        /\ net[c].sent # Undefined
        /\ net[c].sent[1].ifNoneMatch = calls[c].options.headers
        /\ net[c].count <= Retries(c) + 1
        /\ (Settled(c) /\ net[c].last = Failed("AbortError")) =>
             /\ net[c].count = Retries(c) + 1
             /\ ops[c].outcome.state = "rejected"
             /\ ops[c].outcome.error.name = "TimeoutError"
             /\ ops[c].outcome.error.extra = Some(EffectiveTimeout(c))
        /\ calls[d].pc = "done" => (Settled(c) /\ calls[d].outcome = ops[c].outcome)
        /\ (calls[d].pc = "done" /\ calls[c].pc = "done") =>
             calls[d].outcome = calls[c].outcome

\* C12 witness: call 1 (client timeout, no retry, no validator) was in flight
\* when call 2 (50 ms timeout, one retry, a validator) joined it; the single
\* attempt was aborted, and both calls failed with the 30000 ms Timeout error.
C12_Witness ==
  /\ calls[1].pc = "done"
  /\ calls[2].pc = "done"
  /\ calls[2].peers = {1}
  /\ calls[1].options.timeoutMs = Undefined
  /\ calls[1].options.retries = Some(0)
  /\ calls[1].options.headers = Undefined
  /\ calls[2].options.timeoutMs = Some(50)
  /\ calls[2].options.retries = Some(1)
  /\ calls[2].options.headers = Some("etag-1")
  /\ net[1].count = 1
  /\ net[2].count = 0
  /\ net[1].sent = Some([ifNoneMatch |-> Undefined, idempotencyKey |-> Undefined])
  /\ calls[1].outcome.state = "rejected"
  /\ calls[1].outcome.error.name = "TimeoutError"
  /\ calls[1].outcome.error.extra = Some(DEFAULT_TIMEOUT_MS)
  /\ calls[2].outcome = calls[1].outcome

\* ------------------------------------------------------ the cache on its own

\* The key under which Sessions.read caches a session:
\* `session:${projectId}:${sessionId}`.
cacheKey(projectId, sessionId) == <<"session:", projectId, ":", sessionId>>

\* What is recorded of a call of the LRUCache API that left the cache as
\* `after` and returned ret: `removed` are the keys it removed from the Map,
\* `first` the key that was inserted first of those the Map held at the call.
Returned(op, k, after, ret) ==
  [op |-> op, key |-> k, ret |-> ret, removed |-> DOMAIN cache.cache \ DOMAIN after.cache,
   first |-> IF cache.keys = <<>> THEN <<>> ELSE Head(cache.keys)]

\* The calls of the LRUCache API, made at the present time. None is made while
\* a call of set is still in its eviction loop: the loop never yields.
set(k, data, etag, ttl) ==
  /\ ~Spinning(cache)
  /\ cache' = CacheSet(cache, k, data, etag, ttl, now)
  /\ returned' = Returned("set", k, cache', Undefined)
  /\ UNCHANGED <<httpVars, now, facade, served, applied, otherVars>>

get(k) ==
  /\ ~Spinning(cache)
  /\ cache' = CacheGet(cache, k, now).cache
  /\ returned' = Returned("get", k, cache', CacheGet(cache, k, now).ret)
  /\ UNCHANGED <<httpVars, now, facade, served, applied, otherVars>>

getEntry(k) ==
  /\ ~Spinning(cache)
  /\ cache' = CacheGetEntry(cache, k, now).cache
  /\ returned' = Returned("getEntry", k, cache', CacheGetEntry(cache, k, now).ret)
  /\ UNCHANGED <<httpVars, now, facade, served, applied, otherVars>>

has(k) ==
  /\ ~Spinning(cache)
  /\ cache' = CacheHasLive(cache, k, now).cache
  /\ returned' = Returned("has", k, cache', CacheHasLive(cache, k, now).ret)
  /\ UNCHANGED <<httpVars, now, facade, served, applied, otherVars>>

delete(k) ==
  /\ ~Spinning(cache)
  /\ cache' = CacheDelete(cache, k)
  /\ returned' = Returned("delete", k, cache', CacheHas(cache, k))
  /\ UNCHANGED <<httpVars, now, facade, served, applied, otherVars>>

clear ==
  /\ ~Spinning(cache)
  /\ cache' = CacheClear(cache)
  /\ returned' = Returned("clear", <<>>, cache', Undefined)
  /\ UNCHANGED <<httpVars, now, facade, served, applied, otherVars>>

invalidatePattern(re) ==
  /\ ~Spinning(cache)
  /\ cache' = CacheInvalidatePattern(cache, re)
  /\ returned' = Returned("invalidatePattern", re, cache', Undefined)
  /\ UNCHANGED <<httpVars, now, facade, served, applied, otherVars>>

\* Time passes: Date.now() reads t from now on.
TimePasses(t) ==
  /\ t > now
  /\ now' = t
  /\ returned' = NoCall
  /\ UNCHANGED <<httpVars, cache, facade, served, applied, otherVars>>

\* SpecCache: an LRUCache of capacity 1 or 2 and a default time-to-live of 2
\* ticks, used directly through its API with the keys of three sessions, while
\* time passes from 0 to MaxNow.
MaxNow == 3
CacheSizes == {1, 2}
CacheKeys == {cacheKey("p1", "s1"), cacheKey("p1", "s2"), cacheKey("p2", "s1")}
CachePayloads == {<<"d1", Undefined>>, <<"d2", Some("e2")>>}
CacheTTLs == {Undefined, Some(1)}
CachePatterns == {RegExp(source, global) : source \in {"p1", "s1"}, global \in BOOLEAN}

InitCache ==
  /\ InitHTTP
  /\ InitResources
  /\ InitOther
  /\ \E m \in CacheSizes : cache = LRUCache([maxSize |-> Some(m), defaultTTL |-> Some(2)])
  /\ now = 0
  /\ returned = NoCall

NextCache ==
  \/ \E k \in CacheKeys, d \in CachePayloads, ttl \in CacheTTLs : set(k, d[1], d[2], ttl)
  \/ \E k \in CacheKeys : get(k)
  \/ \E k \in CacheKeys : getEntry(k)
  \/ \E k \in CacheKeys : has(k)
  \/ \E k \in CacheKeys : delete(k)
  \/ clear
  \/ \E re \in CachePatterns : invalidatePattern(re)
  \/ \E t \in 0 .. MaxNow : TimePasses(t)

SpecCache == InitCache /\ [][NextCache]_vars

\* The entry held under key k before the step, and whether one is held.
Held(k) == k \in DOMAIN cache.cache
HeldAfter(k) == k \in DOMAIN cache'.cache

\* The step is a call of one of the given cache operations.
CallOf(opNames) == returned'.op \in opNames

\* C16: an entry set at time t with time-to-live T is reported present by has,
\* get and getEntry at every time now <= t + T and absent at every time
\* now > t + T; the access that finds it expired removes it from the Map and
\* from the use order, and nothing but a cache call removes an entry: the
\* passing of time leaves the cache as it is.
C16_LazyExpiry ==
  [][/\ (CallOf({"has", "get", "getEntry"}) /\ Held(returned'.key)) =>
          LET k == returned'.key
              e == cache.cache[k]
          IN  IF now <= e.timestamp + e.ttl
              THEN /\ HeldAfter(k)
                   /\ cache'.cache[k] = e
                   /\ returned'.removed = {}
                   /\ returned'.op = "has" => returned'.ret = TRUE
                   /\ returned'.op = "get" => returned'.ret = Some(e.data)
                   /\ returned'.op = "getEntry" => returned'.ret = Some(e)
              ELSE /\ ~HeldAfter(k)
                   /\ k \notin Range(cache'.accessOrder)
                   /\ returned'.removed = {k}
                   /\ returned'.op = "has" => returned'.ret = FALSE
                   /\ returned'.op # "has" => returned'.ret = Undefined
     /\ returned'.op = "none" => cache' = cache]_vars

\* C16 witness: time is past the deadline of an entry that was set with a
\* time-to-live of 1; has found it expired, reported it absent and removed it.
C16_Witness ==
  /\ returned.op = "has"
  /\ returned.ret = FALSE
  /\ returned.removed = {returned.key}
  /\ now >= 2
  /\ ~Held(returned.key)

\* C17: a set of a new key into a full cache evicts exactly one entry, the
\* least recently used one, where the use order is moved by get, getEntry and
\* set and not by has: get and getEntry of a live key and set of any key make it
\* the most recently used one and keep the order of the others; has keeps the
\* order of the keys that stay; a set that does not exceed the capacity evicts
\* nothing.
C17_EvictsLeastRecentlyUsed ==
  [][LET k == returned'.key
         full == CacheSize(cache) = cache.maxSize
     IN  /\ (CallOf({"set"}) /\ ~Held(k) /\ full) =>
               /\ returned'.removed = {Head(cache.accessOrder)}
               /\ DOMAIN cache'.cache = (DOMAIN cache.cache \ {Head(cache.accessOrder)}) \cup {k}
               /\ cache'.accessOrder = Append(Tail(cache.accessOrder), k)
         /\ (CallOf({"set"}) /\ (Held(k) \/ ~full)) =>
               /\ returned'.removed = {}
               /\ cache'.accessOrder = Append(Without(cache.accessOrder, k), k)
         /\ (CallOf({"get", "getEntry"}) /\ HeldAfter(k)) =>
               cache'.accessOrder = Append(Without(cache.accessOrder, k), k)
         /\ (CallOf({"has"}) /\ HeldAfter(k)) => cache'.accessOrder = cache.accessOrder
         /\ (CallOf({"has", "get", "getEntry"}) /\ ~HeldAfter(k)) =>
               cache'.accessOrder = Without(cache.accessOrder, k)]_vars

\* C17 witness: in a cache of capacity 2 that held two entries a third key was
\* set; one entry was evicted for it, and it is not the one inserted first,
\* which had been used since and is still held.
C17_Witness ==
  /\ cache.maxSize = 2
  /\ returned.op = "set"
  /\ Cardinality(returned.removed) = 1
  /\ returned.first # returned.key
  /\ returned.first \notin returned.removed
  /\ cache.accessOrder = <<returned.first, returned.key>>

\* C18: the number of entries held by the cache never exceeds its maxSize.
C18_SizeBounded == CacheSize(cache) <= cache.maxSize /\ Len(cache.accessOrder) <= cache.maxSize

\* C18 witness: a cache of capacity 2 is full right after a set that had to
\* evict an entry.
C18_Witness ==
  /\ cache.maxSize = 2
  /\ CacheSize(cache) = 2
  /\ returned.op = "set"
  /\ returned.removed # {}

\* A key matches a pattern: a test of the pattern on it alone finds a match.
Matches(re, k) == MatchesFrom(re, k, 0) # {}

\* C19: invalidatePattern(m) removes every key that matches m and nothing else:
\* afterwards no matching key is held, every other entry is held unchanged and
\* the use order of those is as before; clear() removes every entry.
C19_InvalidateExactlyMatching ==
  [][/\ CallOf({"invalidatePattern"}) =>
          LET re == returned'.key
              stay == {k \in DOMAIN cache.cache : ~Matches(re, k)}
          IN  /\ DOMAIN cache'.cache = stay
              /\ \A k \in stay : cache'.cache[k] = cache.cache[k]
              /\ cache'.accessOrder = SelectSeq(cache.accessOrder, LAMBDA k : k \in stay)
     /\ CallOf({"clear"}) => (cache'.cache = <<>> /\ cache'.accessOrder = <<>>)]_vars

\* -------------------------------------------------------- Sessions.read

\* The time-to-live of a cached session: `ttl: 300000`.
SESSION_TTL == 300000

\* JavaScript null.
Null == [null |-> TRUE]

\* Mutant of Validator: the cache is not consulted for a validator.
Validator_ExplicitOnly(ifNoneMatch, cached) == ifNoneMatch

\* The validator Sessions.read goes on with: the caller's, or when that is
\* falsy the etag of the entry found in the cache, if one was found.
Validator(ifNoneMatch, cached) ==
  IF ~Truthy(ifNoneMatch) /\ cached # Undefined THEN cached[1].etag ELSE ifNoneMatch

\* The RequestOptions Sessions.read passes to requestWithHeaders():
\* If-None-Match is set when the validator is truthy.
ReadOptions(projectId, sessionId, validator) ==
  [method |-> "GET",
   path |-> <<"/api/v1/projects/", projectId, "/sessions/", sessionId>>,
   timeoutMs |-> Undefined, idempotencyKey |-> Undefined, retries |-> Undefined,
   headers |-> IF Truthy(validator) THEN validator ELSE Undefined]

\* `{...response.data.data.session, ...(etag && { etag })}`
SessionResult(content) ==
  [session |-> content.session,
   etag |-> IF Truthy(content.etag) THEN content.etag ELSE Undefined]

\* Observation, not program state: the etags of the sessions that reads of
\* session projectId/sessionId have returned so far.
ReturnedETags(projectId, sessionId) ==
  {facade[d].result.value.etag :
     d \in {e \in Calls : /\ facade[e].pc = "done"
                          /\ facade[e].fn = "sessions.read"
                          /\ facade[e].projectId = projectId
                          /\ facade[e].sessionId = sessionId
                          /\ facade[e].result.state = "fulfilled"
                          /\ facade[e].result.value # Null}}

\* Sessions.read(projectId, sessionId, ifNoneMatch) up to its await: the cache
\* is consulted when no validator was passed, and the GET is issued. `found`
\* and `prior` are observations: the entry found, and ReturnedETags at the call.
read(c, projectId, sessionId, ifNoneMatch) ==
  LET k == cacheKey(projectId, sessionId)
      looked == IF ~Truthy(ifNoneMatch) THEN CacheGetEntry(cache, k, now)
                ELSE [cache |-> cache, ret |-> Undefined]
      validator == Validator(ifNoneMatch, looked.ret)
  IN  /\ Requested(c, "with-headers", ReadOptions(projectId, sessionId, validator))
      /\ cache' = looked.cache
      /\ facade' = [facade EXCEPT ![c] =
            [pc |-> "waiting", fn |-> "sessions.read", projectId |-> projectId,
             sessionId |-> sessionId, ifNoneMatch |-> ifNoneMatch, found |-> looked.ret,
             prior |-> ReturnedETags(projectId, sessionId), result |-> Pending]]
      /\ UNCHANGED <<now, returned, served, applied, otherVars>>

\* Sessions.read after its await. content is what the endpoint put in the
\* response (the etag header and the session); it is fixed for a response
\* when the first call that waited for it reads it.
ReadResumed(c, content) ==
  /\ facade[c].pc = "waiting"
  /\ facade[c].fn = "sessions.read"
  /\ calls[c].pc = "done"
  /\ LET k == cacheKey(facade[c].projectId, facade[c].sessionId)
         op == calls[c].promise
         out == calls[c].outcome
         result == SessionResult(content)
         cached == CacheGet(cache, k, now)
     IN  IF out.state = "fulfilled"
         THEN /\ served[op] \in {Undefined, Some(content)}
              /\ served' = [served EXCEPT ![op] = Some(content)]
              /\ cache' = IF Truthy(content.etag)
                          THEN CacheSet(cache, k, result, content.etag, Some(SESSION_TTL), now)
                          ELSE cache
              /\ facade' = [facade EXCEPT ![c].pc = "done", ![c].result = Fulfilled(result)]
         ELSE IF out.error.sdk /\ out.error.status = Some(304)
         THEN /\ cache' = cached.cache
              /\ facade' = [facade EXCEPT ![c].pc = "done",
                                          ![c].result = IF cached.ret # Undefined
                                                        THEN Fulfilled(cached.ret[1])
                                                        ELSE Fulfilled(Null)]
              /\ served' = served
         ELSE /\ facade' = [facade EXCEPT ![c].pc = "done", ![c].result = Rejected(out.error)]
              /\ UNCHANGED <<cache, served>>
  /\ UNCHANGED <<httpVars, now, returned, applied, otherVars>>

\* Client.clearCache()
clearCache ==
  /\ cache' = CacheClear(cache)
  /\ UNCHANGED <<httpVars, now, returned, facade, served, applied, otherVars>>

\* SpecRead: NumReads calls of sessions.read on a client with caching enabled
\* (the default capacity, or a capacity of 1), for two sessions of one project,
\* with and without a validator, one after the other or concurrently; the
\* endpoint answers 200 with a session and an ETag header or none, or 304; the
\* cache is cleared at any moment, and time passes beyond the time-to-live.
NumReads == 2
ReadCacheSizes == {Undefined, Some(1)}
ReadSessions == {"s1", "s2"}
ReadValidators == {Undefined, Some("e1")}
ReadStatuses == {200, 304}
ReadContents ==
  {[etag |-> Some("e1"), session |-> "v1"], [etag |-> Some("e2"), session |-> "v2"],
   [etag |-> Undefined, session |-> "v3"]}
ReadTimes == {SESSION_TTL + 1}

InitRead ==
  /\ InitHTTP
  /\ InitResources
  /\ InitOther
  /\ \E m \in ReadCacheSizes : cache = LRUCache([maxSize |-> m, defaultTTL |-> Undefined])
  /\ now = 0
  /\ returned = NoCall

NextRead ==
  \/ \E c \in 1 .. NumReads :
       \/ \E s \in ReadSessions, v \in ReadValidators : read(c, "p1", s, v)
       \/ \E status \in ReadStatuses : FetchResolved(c, status)
       \/ JsonSettled(c, TRUE)
       \/ AwaitResumed(c)
       \/ Adopted(c)
       \/ \E content \in ReadContents : ReadResumed(c, content)
  \/ clearCache
  \/ \E t \in ReadTimes : TimePasses(t)

SpecRead == InitRead /\ [][NextRead]_vars

\* The step is the call of sessions.read by c / its return to the caller.
ReadCalled(c) == facade[c].pc = "none" /\ facade'[c].pc = "waiting"
ReadReturned(c) == facade[c].pc = "waiting" /\ facade'[c].pc = "done"

\* The request of c was answered 304: requestWithHeaders() threw the error
\* classified from that response.
NotModified(c) ==
  /\ calls[c].pc = "done"
  /\ calls[c].outcome.state = "rejected"
  /\ calls[c].outcome.error.status = Some(304)

\* The cache holds an entry for the session of read c that has not expired.
LiveEntry(c) ==
  LET k == cacheKey(facade[c].projectId, facade[c].sessionId)
  IN  Held(k) /\ now <= cache.cache[k].timestamp + cache.cache[k].ttl

\* C13: after sessions.read(p, s) returned a session with ETag E1, a later
\* sessions.read(p, s, E1) that the server answers with 304 returns null.
C13_ConditionalReadReturnsNull ==
  [][\A c \in Calls :
       ( /\ ReadReturned(c)
         /\ facade[c].ifNoneMatch # Undefined
         /\ facade[c].ifNoneMatch \in facade[c].prior
         /\ NotModified(c) ) =>
         facade'[c].result = Fulfilled(Null)]_vars

C15_FreshResponseOverwrites ==
  [][\A c \in Calls :
       (ReadReturned(c) /\ calls[c].outcome.state = "fulfilled") =>
         LET k == cacheKey(facade[c].projectId, facade[c].sessionId)
             result == facade'[c].result.value
         IN  /\ HeldAfter(k)
             /\ cache'.cache[k].data = result
             /\ cache'.cache[k].etag = result.etag]_vars

\* ---------------------------------------------------------------- GraphQL

\* new GraphQLError(message, errors, query, variables): status 200, the errors,
\* the query and the variables in its details, no request context.
GraphQLError(message, errors, query, variables) ==
  SDKError("GraphQLError", Some(200), message,
           Some([errors |-> errors, query |-> query, variables |-> variables]), Undefined)

\* The query text graphql.search sends.
SearchSessionsQuery == <<"query SearchSessions($query, $filters, $limit)">>

\* The variables graphql.search builds: limit when it is not undefined, filters
\* when they are truthy.
SearchVariables(searchQuery, options) ==
  [query |-> searchQuery,
   limit |-> IF options = Undefined THEN Undefined ELSE options[1].limit,
   filters |-> IF options = Undefined THEN Undefined ELSE options[1].filters]

\* The RequestOptions of both GraphQL methods.
GraphQLOptions ==
  [method |-> "POST", path |-> <<"/api/v1/graphql">>, timeoutMs |-> Undefined,
   idempotencyKey |-> Undefined, retries |-> Undefined, headers |-> Undefined]

\* Mutant of hasErrors: errors beside a data payload are let through.
hasErrors_UnlessData(body) ==
  body.errors # Undefined /\ Len(body.errors[1]) > 0 /\ body.data = Undefined

\* `response.errors && response.errors.length > 0`
hasErrors(body) == body.errors # Undefined /\ Len(body.errors[1]) > 0

\* graphql.search(searchQuery, options) and graphql.query(query, variables) up
\* to their await: the POST is issued. `variables` is what the error will carry.
search(c, searchQuery, options) ==
  /\ Requested(c, "plain", GraphQLOptions)
  /\ facade' = [facade EXCEPT ![c] =
        [pc |-> "waiting", fn |-> "graphql.search", query |-> SearchSessionsQuery,
         variables |-> Some(SearchVariables(searchQuery, options)), result |-> Pending]]
  /\ UNCHANGED <<cache, now, returned, served, applied, otherVars>>

query(c, text, variables) ==
  /\ Requested(c, "plain", GraphQLOptions)
  /\ facade' = [facade EXCEPT ![c] =
        [pc |-> "waiting", fn |-> "graphql.query", query |-> text,
         variables |-> variables, result |-> Pending]]
  /\ UNCHANGED <<cache, now, returned, served, applied, otherVars>>

\* What graphql.search and graphql.query make of the response body.
SearchOutcome(body, text, variables) ==
  IF hasErrors(body)
  THEN Rejected(GraphQLError(<<"GraphQL query failed">>, body.errors[1], text, variables))
  ELSE IF body.data = Undefined \/ body.data[1].searchSessions = Undefined
  THEN Rejected(GraphQLError(<<"No data returned from GraphQL query">>, <<>>, text, variables))
  ELSE Fulfilled(body.data[1].searchSessions[1])

QueryOutcome(body, text, variables) ==
  IF hasErrors(body)
  THEN Rejected(GraphQLError(<<"GraphQL query failed">>, body.errors[1], text, variables))
  ELSE Fulfilled(body.data)

\* graphql.search and graphql.query after their await. body is the parsed
\* response body, fixed for a response when it is first read.
GraphQLResumed(c, body) ==
  /\ facade[c].pc = "waiting"
  /\ facade[c].fn \in {"graphql.search", "graphql.query"}
  /\ calls[c].pc = "done"
  /\ LET op == calls[c].promise
         out == calls[c].outcome
     IN  IF out.state = "fulfilled"
         THEN /\ served[op] \in {Undefined, Some(body)}
              /\ served' = [served EXCEPT ![op] = Some(body)]
              /\ facade' = [facade EXCEPT
                   ![c].pc = "done",
                   ![c].result = IF facade[c].fn = "graphql.search"
                                 THEN SearchOutcome(body, facade[c].query, facade[c].variables)
                                 ELSE QueryOutcome(body, facade[c].query, facade[c].variables)]
         ELSE /\ facade' = [facade EXCEPT ![c].pc = "done", ![c].result = Rejected(out.error)]
              /\ served' = served
  /\ UNCHANGED <<httpVars, cache, now, returned, applied, otherVars>>

\* SpecGraphQL: one call of graphql.search or graphql.query; the endpoint
\* answers 200 with a body that has or lacks `data` and `errors`, or 400.
SearchInputs == {Undefined, Some([limit |-> Some("10"), filters |-> Undefined]),
                 Some([limit |-> Undefined, filters |-> Some("tags")])}
QueryInputs == {Undefined, Some("vars-1")}
SearchTexts == {<<"needle">>, <<"hay", "stack">>}
QueryTexts == {<<"query Q">>, <<"query R">>}
GraphQLStatuses == {200, 400}
GraphQLBodies ==
  [data : {Undefined, Some([searchSessions |-> Undefined]),
           Some([searchSessions |-> Some("results")])},
   errors : {Undefined, Some(<<>>), Some(<<"error-1">>), Some(<<"error-1", "error-2">>)}]

NextGraphQL ==
  \/ \E text \in SearchTexts, options \in SearchInputs : search(1, text, options)
  \/ \E text \in QueryTexts, variables \in QueryInputs : query(1, text, variables)
  \/ \E status \in GraphQLStatuses : FetchResolved(1, status)
  \/ \E parsed \in BOOLEAN : JsonSettled(1, parsed)
  \/ Adopted(1)
  \/ \E body \in GraphQLBodies : GraphQLResumed(1, body)

SpecGraphQL == Init /\ [][NextGraphQL]_vars

\* C20: a 2xx response whose `errors` array is not empty makes graphql.search
\* and graphql.query fail with a GraphQLError that carries the whole error
\* list, the query text and the variables of the call, whether or not the body
\* also has a data payload; the data is never returned.
C20_ErrorsBeatData ==
  [][\A c \in Calls :
       ( /\ facade[c].pc = "waiting"
         /\ facade'[c].pc = "done"
         /\ facade[c].fn \in {"graphql.search", "graphql.query"}
         /\ calls[c].outcome.state = "fulfilled"
         /\ served'[calls[c].promise][1].errors \notin {Undefined, Some(<<>>)} ) =>
         LET body == served'[calls[c].promise][1]
             result == facade'[c].result
         IN  /\ result.state = "rejected"
             /\ result.error.name = "GraphQLError"
             /\ result.error.extra[1].errors = body.errors[1]
             /\ result.error.extra[1].query = facade[c].query
             /\ result.error.extra[1].variables = facade[c].variables]_vars

\* C20 witness: graphql.search got a 200 body with search results and two
\* errors, and failed with a GraphQLError carrying both errors.
C20_Witness ==
  \E c \in Calls :
    /\ facade[c].pc = "done"
    /\ facade[c].fn = "graphql.search"
    /\ net[c].last = Answered(200)
    /\ served[c] = Some([data |-> Some([searchSessions |-> Some("results")]),
                         errors |-> Some(<<"error-1", "error-2">>)])
    /\ facade[c].result.state = "rejected"
    /\ facade[c].result.error.name = "GraphQLError"
    /\ facade[c].result.error.extra[1].errors = <<"error-1", "error-2">>

\* The data key a GraphQL method expects is missing from the body: `data` for
\* graphql.query, `data.searchSessions` for graphql.search.
DataMissing(fn, body) ==
  \/ body.data = Undefined
  \/ fn = "graphql.search" /\ body.data[1].searchSessions = Undefined

\* C21: a 2xx response without errors (absent or empty) and without the
\* expected data key makes every GraphQL call, graphql.search and
\* graphql.query alike, fail with the "no data returned" GraphQLError; none
\* returns successfully.
C21_NoDataIsFailure ==
  [][\A c \in Calls :
       ( /\ facade[c].pc = "waiting"
         /\ facade'[c].pc = "done"
         /\ facade[c].fn \in {"graphql.search", "graphql.query"}
         /\ calls[c].outcome.state = "fulfilled"
         /\ served'[calls[c].promise][1].errors \in {Undefined, Some(<<>>)}
         /\ DataMissing(facade[c].fn, served'[calls[c].promise][1]) ) =>
         /\ facade'[c].result.state = "rejected"
         /\ facade'[c].result.error.name = "GraphQLError"
         /\ facade'[c].result.error.message = <<"No data returned from GraphQL query">>]_vars

\* The same for graphql.search alone, where the code does check the data key.
C21_SearchNoDataIsFailure ==
  [][\A c \in Calls :
       ( /\ facade[c].pc = "waiting"
         /\ facade'[c].pc = "done"
         /\ facade[c].fn = "graphql.search"
         /\ calls[c].outcome.state = "fulfilled"
         /\ served'[calls[c].promise][1].errors \in {Undefined, Some(<<>>)}
         /\ DataMissing(facade[c].fn, served'[calls[c].promise][1]) ) =>
         /\ facade'[c].result.state = "rejected"
         /\ facade'[c].result.error.name = "GraphQLError"
         /\ facade'[c].result.error.message = <<"No data returned from GraphQL query">>]_vars

\* -------------------------------------------------- error classification

\* SDKError.fromResponse applied to a response with this status and these
\* headers, with the context of a request, at the current time.
classify(status, headers, context) ==
  /\ applied' = [fn |-> "fromResponse", status |-> status, headers |-> headers,
                 context |-> context, t |-> now,
                 value |-> fromResponse(status, headers, context, now)]
  /\ UNCHANGED <<httpVars, cache, now, returned, facade, served, otherVars>>

\* SpecClassify: fromResponse on its own, for non-2xx statuses of every class,
\* with and without (and with an empty) x-request-id, with retry-after missing,
\* empty, or a numeral, while time passes.
ClassifyStatuses == {100, 304, 400, 401, 403, 404, 408, 418, 429, 500, 501, 502, 503, 504, 599}
ClassifyRequestIds == {Undefined, Some(""), Some("req-1")}
ClassifyRetryAfters == {Undefined, Some(<<>>), Some(<<0>>), Some(<<1>>), Some(<<3, 0>>),
                        Some(<<0, 7>>)}
ClassifyContexts ==
  {[Context([method |-> "GET", path |-> <<"/a">>], 0) EXCEPT !.requestId = r] :
     r \in {Undefined, Some("req-0")}}
ClassifyTimes == {1000}

NextClassify ==
  \/ \E status \in ClassifyStatuses, r \in ClassifyRequestIds, ra \in ClassifyRetryAfters,
        context \in ClassifyContexts : classify(status, Headers(r, ra), context)
  \/ \E t \in ClassifyTimes : TimePasses(t)

SpecClassify == Init /\ [][NextClassify]_vars

\* C22: the class of the error for a non-2xx response is a function of the
\* status alone: 400 Validation, 401 Authentication, 403 Permission, 404
\* NotFound, 429 RateLimit, 500/502/503/504 Server, anything else (304, 408,
\* 501, ...) Unknown; the error carries the status, and the request id of the
\* x-request-id header whenever the header gives one.
C22_ClassificationByStatus ==
  applied.fn = "fromResponse" =>
    /\ ~ok(applied.status)
    /\ applied.value.sdk
    /\ applied.value.name = ClassOf(applied.status)
    /\ applied.value.status = Some(applied.status)
    /\ Truthy(applied.headers.requestId) =>
         applied.value.context.requestId = applied.headers.requestId

\* C22 witness: a 501 with a request id was classified Unknown with status 501
\* and that id, replacing the id the context had.
C22_Witness ==
  /\ applied.fn = "fromResponse"
  /\ applied.status = 501
  /\ applied.headers.requestId = Some("req-1")
  /\ applied.context.requestId = Some("req-0")
  /\ applied.value.name = "UnknownError"
  /\ applied.value.status = Some(501)
  /\ applied.value.context.requestId = Some("req-1")

\* C23: a 429 whose retry-after header is the numeral of s seconds (s >= 0)
\* gives a RateLimitError whose retry-after instant is the classification time
\* plus s seconds; without the header the instant is absent.
C23_RetryAfterInstant ==
  (applied.fn = "fromResponse" /\ applied.status = 429) =>
    /\ applied.value.name = "RateLimitError"
    /\ applied.headers.retryAfter = Undefined => applied.value.extra = Undefined
    /\ applied.headers.retryAfter \notin {Undefined, Some(<<>>)} =>
         applied.value.extra = Some(applied.t + parseInt(applied.headers.retryAfter[1]) * 1000)

\* The same for s >= 1.
C23_PositiveRetryAfterInstant ==
  (applied.fn = "fromResponse" /\ applied.status = 429) =>
    /\ applied.value.name = "RateLimitError"
    /\ applied.headers.retryAfter = Undefined => applied.value.extra = Undefined
    /\ ( /\ applied.headers.retryAfter \notin {Undefined, Some(<<>>)}
         /\ parseInt(applied.headers.retryAfter[1]) >= 1 ) =>
         applied.value.extra = Some(applied.t + parseInt(applied.headers.retryAfter[1]) * 1000)

\* ------------------------------------------------------ exhausted retries

\* Every attempt of invocation c so far ended in a transport failure, and they
\* are all the retries+1 attempts the call may make.
OnlyTransportFailures(c) ==
  /\ HasOp(c)
  /\ LastTransportFailed(c)
  /\ \A e \in net[c].earlier : e.error \in {"TypeError", "AbortError"}
  /\ Completed(c) = Retries(c) + 1

\* C24: when all retries+1 attempts of a call on an idempotent method ended in
\* transport failures, the call fails with the generic NetworkError whose
\* message gives the number of attempts (retries+1) and whose cause is the
\* failure of the last attempt.
C24_ExhaustedRetriesError ==
  \A c \in Calls :
    ( /\ OnlyTransportFailures(c)
      /\ calls[c].options.method \in {"GET", "PUT", "DELETE", "HEAD"} ) =>
      /\ Settled(c)
      /\ ops[c].outcome.state = "rejected"
      /\ ops[c].outcome.error.name = "NetworkError"
      /\ ops[c].outcome.error.message =
           <<"Request failed after ", ToString(Retries(c) + 1), " attempts">>
      /\ ops[c].outcome.error.extra = Some(RawError(net[c].last.error))

\* What the code does in that case: the call ends with the last attempt, with
\* the error of a single failed attempt, TimeoutError for an abort and
\* otherwise NetworkError("Request failed: ...") wrapping the cause.
C24_LastAttemptError ==
  \A c \in Calls :
    ( /\ OnlyTransportFailures(c)
      /\ calls[c].options.method \in {"GET", "PUT", "DELETE", "HEAD"} ) =>
      /\ FailedAtLast(c)
      /\ net[c].last.error = "AbortError" =>
           ops[c].outcome.error = TimeoutError(EffectiveTimeout(c), Context(calls[c].options, Retries(c)))
      /\ net[c].last.error # "AbortError" =>
           ops[c].outcome.error =
             NetworkError(RawError(net[c].last.error), Context(calls[c].options, Retries(c)))

\* The status is one the code retries for call c while attempts remain.
RetriedStatus(c, status) ==
  \/ status \in RETRY_STATUS_CODES
  \/ /\ calls[c].options.method = "POST"
     /\ Truthy(calls[c].options.idempotencyKey)
     /\ status >= 500

\* C25: when the last of the retries+1 attempts of a call is answered with a
\* retried status, the call fails with the typed error classified from that
\* response (its class, its status, its attempt index), whatever the earlier
\* attempts were answered; no generic wrapper, no earlier attempt's error.
C25_LastResponseError ==
  \A c \in Calls :
    ( /\ HasOp(c)
      /\ LastAnswered(c)
      /\ RetriedStatus(c, net[c].last.status)
      /\ Completed(c) = Retries(c) + 1 ) =>
      /\ FailedAtLast(c)
      /\ ops[c].outcome.error =
           fromResponse(net[c].last.status, NoHeaders, Context(calls[c].options, Retries(c)), now)
      /\ ops[c].outcome.error.name = ClassOf(net[c].last.status)
      /\ ops[c].outcome.error.status = Some(net[c].last.status)

\* C25 witness: a GET with one retry was answered 503, then 500, and failed
\* with ServerError 500 of the second attempt.
C25_Witness ==
  \E c \in Calls :
    /\ calls[c].pc = "done"
    /\ calls[c].options.method = "GET"
    /\ calls[c].options.retries = Some(1)
    /\ net[c].earlier = {Answered(503)}
    /\ net[c].last = Answered(500)
    /\ calls[c].outcome.state = "rejected"
    /\ calls[c].outcome.error.name = "ServerError"
    /\ calls[c].outcome.error.status = Some(500)
    /\ calls[c].outcome.error.context.retryCount = 1

\* ------------------------------------------------------------ debug trace

\* Strings whose characters matter are sequences of one-character strings.
UpperCase == <<"A", "B", "C", "D", "E", "F", "G", "H", "I", "J", "K", "L", "M",
               "N", "O", "P", "Q", "R", "S", "T", "U", "V", "W", "X", "Y", "Z">>
LowerCase == <<"a", "b", "c", "d", "e", "f", "g", "h", "i", "j", "k", "l", "m",
               "n", "o", "p", "q", "r", "s", "t", "u", "v", "w", "x", "y", "z">>

\* String.prototype.toLowerCase and String.prototype.includes
toLowerCase(str) ==
  [i \in 1 .. Len(str) |->
     IF \E j \in 1 .. 26 : UpperCase[j] = str[i]
     THEN LowerCase[CHOOSE j \in 1 .. 26 : UpperCase[j] = str[i]]
     ELSE str[i]]
includes(str, sub) ==
  \E i \in 0 .. Len(str) - Len(sub) : SubSeq(str, i + 1, i + Len(sub)) = sub

\* A JSON value of a request body is a string, [str |-> s], or an object,
\* [obj |-> f] with f a function from field names to JSON values.
Str(s) == [str |-> s]
Obj(f) == [obj |-> f]
IsObj(v) == DOMAIN v = {"obj"}
REDACTED == Str("[REDACTED]")

\* sensitiveFields of sanitizeBody, as written in the code.
sensitiveFields ==
  { <<"p", "a", "s", "s", "w", "o", "r", "d">>, <<"t", "o", "k", "e", "n">>,
    <<"s", "e", "c", "r", "e", "t">>, <<"a", "p", "i", "K", "e", "y">>,
    <<"a", "p", "i", "_", "k", "e", "y">> }

\* Mutant of sensitive: no field name is sensitive.
sensitive_None(key) == FALSE

\* `sensitiveFields.some((field) => key.toLowerCase().includes(field))`
sensitive(key) == \E field \in sensitiveFields : includes(toLowerCase(key), field)

\* sanitizeObject(obj) on the deep clone, returning the redacted clone.
RECURSIVE sanitizeObject(_)
sanitizeObject(f) ==
  [key \in DOMAIN f |->
     IF sensitive(key) THEN REDACTED
     ELSE IF IsObj(f[key]) THEN Obj(sanitizeObject(f[key].obj))
     ELSE f[key]]

\* DebugLogger.sanitizeBody(body)
sanitizeBody(body) == IF IsObj(body) THEN Obj(sanitizeObject(body.obj)) ELSE body

\* Mutant of sanitizeHeaders: the headers are emitted as they are.
sanitizeHeaders_Raw(headers) == headers

\* DebugLogger.sanitizeHeaders(headers): Authorization and X-API-Key are
\* replaced when they are there.
sanitizeHeaders(headers) ==
  [h \in DOMAIN headers |->
     IF h = "Authorization" /\ headers[h] # <<>> THEN <<"Bearer [REDACTED]">>
     ELSE IF h = "X-API-Key" /\ headers[h] # <<>> THEN <<"[REDACTED]">>
     ELSE headers[h]]

\* The headers performRequest builds and hands to logRequest: the bearer
\* credential, then the caller's own headers over them.
tracedHeaders(apiKey, own) ==
  [h \in {"Authorization"} \cup DOMAIN own |->
     IF h \in DOMAIN own THEN own[h] ELSE <<"Bearer ", apiKey>>]

\* DebugLogger.logRequest(method, url, headers, body) with these DebugOptions at
\* time t: the event handed to the sink, if any. body is an optional JSON value.
TraceEvent(options, method, target, headers, body, t) ==
  IF ~options.logRequests \/ ~options.enabled THEN Undefined
  ELSE Some([category |-> "REQUEST", timestamp |-> t, message |-> <<method, " ">> \o target,
             headers |-> sanitizeHeaders(headers),
             body |-> IF body = Undefined THEN Undefined ELSE Some(sanitizeBody(body[1]))])

\* performRequest's call of logRequest for a request of a client with this
\* credential.
logRequest(apiKey, options, method, own, body) ==
  /\ applied' = [fn |-> "logRequest", apiKey |-> apiKey, options |-> options, method |-> method,
                 own |-> own, body |-> body, t |-> now,
                 value |-> TraceEvent(options, method, url([path |-> <<"/a">>]),
                                      tracedHeaders(apiKey, own), body, now)]
  /\ UNCHANGED <<httpVars, cache, now, returned, facade, served, otherVars>>

\* SpecDebug: logRequest on its own, for clients with two credentials and any
\* debug toggles, requests with and without an X-API-Key header of their own,
\* and bodies that are missing, a string, or objects nested up to MaxDepth with
\* plain and secret field names.
MaxDepth == 2
DebugKeys == {"key-A", "key-B"}
DebugToggles == [enabled : BOOLEAN, logRequests : BOOLEAN]
DebugMethods == {"POST"}
DebugOwnHeaders == {<<>>, ("X-API-Key" :> <<"key-A">>)}
DebugFields ==
  { <<"n", "a", "m", "e">>, <<"a", "p", "i", "K", "e", "y">>,
    <<"a", "p", "i", "_", "k", "e", "y">>,
    <<"a", "u", "t", "h", "T", "o", "k", "e", "n">> }
DebugStrings == {Str("v1")}

\* The one-field objects nested at most d deep.
RECURSIVE DebugObjects(_)
DebugObjects(d) ==
  IF d = 0 THEN {}
  ELSE {Obj(key :> v) : key \in DebugFields, v \in DebugStrings \cup DebugObjects(d - 1)}

DebugBodies ==
  {Undefined} \cup {Some(v) : v \in DebugStrings \cup DebugObjects(MaxDepth)}
    \cup {Some(Obj(a.obj @@ b.obj)) : a, b \in DebugObjects(1)}

NextDebug ==
  \/ \E apiKey \in DebugKeys, options \in DebugToggles, method \in DebugMethods,
        own \in DebugOwnHeaders, body \in DebugBodies :
        logRequest(apiKey, options, method, own, body)

SpecDebug == Init /\ [][NextDebug]_vars

\* A field name matches a secret pattern: it contains password, token, secret,
\* apiKey or api_key, letter case aside.
SecretNamed(key) ==
  \E field \in sensitiveFields : includes(toLowerCase(key), toLowerCase(field))

\* The same without the apiKey pattern.
SecretNamedButApiKey(key) ==
  \E field \in sensitiveFields \ {<<"a", "p", "i", "K", "e", "y">>} :
    includes(toLowerCase(key), toLowerCase(field))

\* Every secret-named field of the JSON value, at any depth, is the marker.
RECURSIVE Redacted(_)
Redacted(v) ==
  IsObj(v) => \A key \in DOMAIN v.obj :
                IF SecretNamed(key) THEN v.obj[key] = REDACTED ELSE Redacted(v.obj[key])

RECURSIVE RedactedButApiKey(_)
RedactedButApiKey(v) ==
  IsObj(v) => \A key \in DOMAIN v.obj :
                IF SecretNamedButApiKey(key) THEN v.obj[key] = REDACTED
                ELSE RedactedButApiKey(v.obj[key])

\* The JSON value with the value of every secret-named field replaced by one
\* fixed value: two bodies that differ only in such values have the same image.
RECURSIVE Masked(_)
Masked(v) ==
  IF IsObj(v)
  THEN Obj([key \in DOMAIN v.obj |->
              IF SecretNamed(key) THEN Str("v0") ELSE Masked(v.obj[key])])
  ELSE v

\* The event of the run that differs from the latest logRequest only in the
\* credential and in the values of secret-named body fields.
MaskedRun ==
  TraceEvent(applied.options, applied.method, url([path |-> <<"/a">>]),
             tracedHeaders("key-0", [h \in DOMAIN applied.own |-> <<"key-0">>]),
             IF applied.body = Undefined THEN Undefined ELSE Some(Masked(applied.body[1])),
             applied.t)

\* C26: an event handed to the debug sink does not hold the bearer credential,
\* every body field in it whose name matches a secret pattern (password,
\* token, secret, apiKey, api_key), at any depth, is the redaction marker, and
\* the event is the one of any run that differs only in the credential or in
\* the values of such fields.
C26_TraceHoldsNoSecret ==
  (applied.fn = "logRequest" /\ applied.value # Undefined) =>
    /\ \A h \in DOMAIN applied.value[1].headers :
         applied.apiKey \notin Range(applied.value[1].headers[h])
    /\ applied.value[1].body # Undefined => Redacted(applied.value[1].body[1])
    /\ applied.value = MaskedRun

\* The same with the apiKey pattern left out of both the marker requirement
\* and the comparison of runs.
C26_TraceHoldsNoSecretButApiKey ==
  (applied.fn = "logRequest" /\ applied.value # Undefined) =>
    /\ \A h \in DOMAIN applied.value[1].headers :
         applied.apiKey \notin Range(applied.value[1].headers[h])
    /\ applied.value[1].body # Undefined => RedactedButApiKey(applied.value[1].body[1])
    /\ applied.value[1].headers = MaskedRun[1].headers

\* ------------------------------------------------------------ two clients

\* The calls made through the second client: those with an even name.
ThroughOther(c) == c % 2 = 0

\* request() / requestWithHeaders() called on the HTTPClient of the first
\* client, and its `await requestPromise` resuming.
requestOwn(c, v, o) ==
  /\ ~ThroughOther(c)
  /\ request(c, v, o)

OwnAwaitResumed(c) ==
  /\ ~ThroughOther(c)
  /\ AwaitResumed(c)

\* Mutant of requestOther: the second client looks the request up in, and
\* enters it into, the table of the first.
requestOther_SharedTable(c, v, o) ==
  /\ ThroughOther(c)
  /\ request(c, v, o)

\* request() / requestWithHeaders() called on the HTTPClient of the second
\* client, and its `await requestPromise` resuming.
requestOther(c, v, o) ==
  /\ ThroughOther(c)
  /\ RequestedOn(otherQueue, otherQueue', c, v, o)
  /\ UNCHANGED <<requestQueue, cache, now, returned, facade, served, applied, otherCache>>

OtherAwaitResumed(c) ==
  /\ ThroughOther(c)
  /\ AwaitResumedOn(otherQueue, otherQueue', c)
  /\ UNCHANGED <<requestQueue, cache, now, returned, facade, served, applied, otherCache>>

\* Mutant of otherClearCache: it clears the cache of the first client.
otherClearCache_Shared ==
  /\ cache' = CacheClear(cache)
  /\ returned' = NoCall
  /\ UNCHANGED <<httpVars, now, facade, served, applied, otherVars>>

\* The second client's cache is written (as its sessions.read does on a fresh
\* response), cleared by its clearCache(), invalidated by its
\* invalidateCache(pattern).
otherSet(k, data, etag, ttl) ==
  /\ otherCache' = CacheSet(otherCache, k, data, etag, ttl, now)
  /\ returned' = NoCall
  /\ UNCHANGED <<httpVars, cache, now, facade, served, applied, otherQueue>>

otherClearCache ==
  /\ otherCache' = CacheClear(otherCache)
  /\ returned' = NoCall
  /\ UNCHANGED <<httpVars, cache, now, facade, served, applied, otherQueue>>

otherInvalidateCache(re) ==
  /\ otherCache' = CacheInvalidatePattern(otherCache, re)
  /\ returned' = NoCall
  /\ UNCHANGED <<httpVars, cache, now, facade, served, applied, otherQueue>>

\* SpecClients: two clients with caches of capacity 1; GETs of one path are
\* issued through both (odd calls through the first, even calls through the
\* second) and answered 204, while both caches are written with the keys of
\* two sessions, cleared and invalidated.
ClientsOptions == Options({"GET"}, {<<"/a">>}, {Undefined}, {Undefined}, {Some(0)}, {Undefined})
ClientsStatuses == {204}
ClientsKeys == {cacheKey("p1", "s1"), cacheKey("p1", "s2")}
ClientsPatterns == {RegExp("s1", FALSE)}

InitClients ==
  /\ InitHTTP
  /\ InitResources
  /\ otherQueue = <<>>
  /\ cache = LRUCache([maxSize |-> Some(1), defaultTTL |-> Undefined])
  /\ otherCache = LRUCache([maxSize |-> Some(1), defaultTTL |-> Undefined])
  /\ now = 0
  /\ returned = NoCall

NextClients ==
  \/ \E c \in Calls :
       \/ \E o \in ClientsOptions : requestOwn(c, "plain", o)
       \/ \E o \in ClientsOptions : requestOther(c, "plain", o)
       \/ \E status \in ClientsStatuses : FetchResolved(c, status)
       \/ OwnAwaitResumed(c)
       \/ OtherAwaitResumed(c)
       \/ Adopted(c)
  \/ \E k \in ClientsKeys : set(k, "v1", Some("e1"), Undefined)
  \/ clearCache
  \/ \E re \in ClientsPatterns : invalidatePattern(re)
  \/ \E k \in ClientsKeys : otherSet(k, "v1", Some("e1"), Undefined)
  \/ otherClearCache
  \/ \E re \in ClientsPatterns : otherInvalidateCache(re)

SpecClients == InitClients /\ [][NextClients]_vars

\* The step is a cache operation of the first / of the second client.
OwnCacheStep ==
  \/ \E k \in ClientsKeys : set(k, "v1", Some("e1"), Undefined)
  \/ clearCache
  \/ \E re \in ClientsPatterns : invalidatePattern(re)
OtherCacheStep ==
  \/ \E k \in ClientsKeys : otherSet(k, "v1", Some("e1"), Undefined)
  \/ otherClearCache
  \/ \E re \in ClientsPatterns : otherInvalidateCache(re)

\* C27: each client has its own pending-request table and its own cache. A GET
\* issued through one client never joins an operation started through the
\* other, so concurrent GETs of one path through two clients are two network
\* operations, each entered in its own client's table; and a step that changes
\* one client's cache (a set, with or without an eviction, a clear, an
\* invalidation) leaves the other client's cache as it was.
C27_ClientsShareNothing ==
  [][ /\ \A c \in Calls :
          Issued(c)' =>
            /\ ThroughOther(calls'[c].promise) = ThroughOther(c)
            /\ ops'[calls'[c].promise].pc # "none"
            /\ net'[calls'[c].promise].count >= 1
      /\ \A key \in DOMAIN requestQueue' : ~ThroughOther(requestQueue'[key])
      /\ \A key \in DOMAIN otherQueue' : ThroughOther(otherQueue'[key])
      /\ cache' # cache => otherCache' = otherCache
      /\ otherCache' # otherCache => cache' = cache
      /\ OwnCacheStep => otherCache' = otherCache
      /\ OtherCacheStep => cache' = cache ]_vars

\* C27 witness: GETs of the same path through the two clients are in flight
\* together as two network calls, each in its own client's table, and the two
\* capacity-1 caches hold different sessions.
C27_Witness ==
  /\ requestQueue = (<<"GET", ":", "https://cloud.specstory.com", "/a">> :> 1)
  /\ otherQueue = (<<"GET", ":", "https://cloud.specstory.com", "/a">> :> 2)
  /\ net[1].inflight = 1
  /\ net[2].inflight = 1
  /\ DOMAIN cache.cache = {cacheKey("p1", "s1")}
  /\ DOMAIN otherCache.cache = {cacheKey("p1", "s2")}

\* ---------------------------------------------------------------- backoff

DEFAULT_BASE_DELAY_MS == 200

\* Mutant of delay: the wait grows linearly with the attempt.
delay_Linear(attempt, jitter) == DEFAULT_BASE_DELAY_MS * (attempt + 1) + jitter

\* HTTPClient.delay(attempt): the duration handed to setTimeout, in
\* milliseconds, jitter being Math.random() * 100.
delay(attempt, jitter) == DEFAULT_BASE_DELAY_MS * 2 ^ attempt + jitter

\* `await this.delay(attempt)` in the retry loop of one call: attempt is 0 for
\* the first wait of a call and one more for each following wait. `waits` are
\* the durations of the call so far.
delayCalled(attempt, jitter) ==
  /\ \/ attempt = 0
     \/ applied.fn = "delay" /\ applied.attempt = attempt - 1
  /\ applied' = [fn |-> "delay", attempt |-> attempt, jitter |-> jitter,
                 value |-> delay(attempt, jitter),
                 waits |-> (IF attempt = 0 THEN <<>> ELSE applied.waits)
                             \o <<delay(attempt, jitter)>>]
  /\ UNCHANGED <<httpVars, cache, now, returned, facade, served, otherVars>>

\* SpecBackoff: the waits of calls that retry up to MaxAttempt + 1 times, with
\* the smallest, a middle and the largest jitter (Math.random() of 0, 0.01,
\* 0.5 and 0.99).
MaxAttempt == 3
Jitters == {0, 1, 50, 99}

NextBackoff ==
  \E attempt \in 0 .. MaxAttempt, jitter \in Jitters : delayCalled(attempt, jitter)

SpecBackoff == Init /\ [][NextBackoff]_vars

\* C28: the wait after attempt k is d with 200 * 2^k <= d < 200 * 2^k + 100,
\* whatever k (no cap), and the waits of one call grow strictly from one retry
\* to the next.
C28_ExponentialBackoff ==
  applied.fn = "delay" =>
    /\ 200 * 2 ^ applied.attempt <= applied.value
    /\ applied.value < 200 * 2 ^ applied.attempt + 100
    /\ Len(applied.waits) = applied.attempt + 1
    /\ \A i \in 1 .. Len(applied.waits) - 1 : applied.waits[i] < applied.waits[i + 1]

\* C28 witness: a call waited 299 ms after its first attempt (the largest
\* jitter), then 400 ms (the smallest), then 800 ms and 1600 ms or more.
C28_Witness ==
  /\ applied.fn = "delay"
  /\ applied.attempt = MaxAttempt
  /\ applied.waits[1] = 299
  /\ applied.waits[2] = 400
  /\ applied.value >= 1600

\* ----------------------------------------------------- client construction

\* a || b for optional strings, and for optional numbers (0 and NaN, the
\* Number() of a missing variable, are falsy; NaN is modelled as undefined).
OrString(a, b) == IF Truthy(a) THEN a ELSE b
OrNumber(a, b) == IF a # Undefined /\ a[1] # 0 THEN a ELSE b

\* Mutant of resolvedApiKey: the environment is not consulted.
resolvedApiKey_OptionOnly(options, env) == options.apiKey

\* `options.apiKey || process.env.SPECSTORY_API_KEY`
resolvedApiKey(options, env) == OrString(options.apiKey, env.SPECSTORY_API_KEY)

\* new Client(options) in a process with environment env: the error thrown, or
\* the configuration the client's HTTPClient is constructed with and whether
\* it has a cache.
Client(options, env) ==
  IF ~Truthy(resolvedApiKey(options, env))
  THEN [thrown |-> TRUE,
        message |-> <<"API key is required. Pass it as apiKey option or set ",
                      "SPECSTORY_API_KEY environment variable.">>]
  ELSE [thrown |-> FALSE,
        apiKey |-> resolvedApiKey(options, env)[1],
        baseUrl |-> OrString(OrString(options.baseUrl, env.SPECSTORY_BASE_URL),
                             Some("https://cloud.specstory.com"))[1],
        timeoutMs |-> OrNumber(OrNumber(options.timeoutMs, env.SPECSTORY_TIMEOUT_MS),
                               Some(30000))[1],
        cached |-> options.cache # Some(FALSE)]

\* A step that constructs a client.
construct(options, env) ==
  /\ applied' = [fn |-> "Client", options |-> options, env |-> env,
                 value |-> Client(options, env)]
  /\ UNCHANGED <<httpVars, cache, now, returned, facade, served, otherVars>>

\* SpecConstruct: clients constructed with the apiKey option missing, empty or
\* set, in environments where SPECSTORY_API_KEY is missing, empty or set, with
\* and without the other options and variables.
ClientOptions ==
  [apiKey : {Undefined, Some(""), Some("option-key")},
   baseUrl : {Undefined, Some("https://example.test")},
   timeoutMs : {Undefined, Some(0), Some(5000)},
   cache : {Undefined, Some(FALSE)}]
Environments ==
  [SPECSTORY_API_KEY : {Undefined, Some(""), Some("env-key")},
   SPECSTORY_BASE_URL : {Undefined, Some("https://env.test")},
   SPECSTORY_TIMEOUT_MS : {Undefined, Some(1000)}]

NextConstruct == \E options \in ClientOptions, env \in Environments : construct(options, env)

SpecConstruct == Init /\ [][NextConstruct]_vars

\* C29: constructing a Client throws the 'API key is required' error exactly
\* when neither the apiKey option nor SPECSTORY_API_KEY is a non-empty string;
\* with the option missing or empty and the variable set, the client is
\* constructed with the variable's value as its key (and with the option's
\* value whenever the option is non-empty).
C29_ApiKeyRequired ==
  applied.fn = "Client" =>
    LET option == applied.options.apiKey
        variable == applied.env.SPECSTORY_API_KEY
        given(key) == key \notin {Undefined, Some("")}
    IN  /\ applied.value.thrown <=> (~given(option) /\ ~given(variable))
        /\ applied.value.thrown => applied.value.message[1] = "API key is required. Pass it as apiKey option or set "
        /\ given(option) => applied.value.apiKey = option[1]
        /\ (~given(option) /\ given(variable)) => applied.value.apiKey = variable[1]

\* C29 witness: with an empty apiKey option and SPECSTORY_API_KEY set, the
\* client was constructed with the key of the environment.
C29_Witness ==
  /\ applied.fn = "Client"
  /\ applied.options.apiKey = Some("")
  /\ applied.env.SPECSTORY_API_KEY = Some("env-key")
  /\ ~applied.value.thrown
  /\ applied.value.apiKey = "env-key"

\* --------------------------------------------------------- 2xx responses

\* C30: when the latest attempt of a call was answered 2xx (and, where a body
\* is read, it parsed or is still being read), the outcome is fixed by status
\* and method: 204 gives the empty payload for every method, otherwise HEAD
\* gives the response headers and status, both without reading a body;
\* otherwise the body is read and, parsed, is the payload. requestWithHeaders
\* returns the response headers beside the payload in all three cases.
C30_SuccessByStatusAndMethod ==
  \A c \in Calls :
    (HasOp(c) /\ LastSucceeded(c)) =>
      LET status == net[c].last.status
          method == calls[c].options.method
          headers == ResponseHeaders(c, LastIndex(c))
          payload == IF status = 204 THEN Undefined
                     ELSE IF method = "HEAD"
                          THEN [type |-> "head", headers |-> headers, status |-> status]
                          ELSE ResponseBody(c, LastIndex(c))
      IN  /\ ops[c].pc \in {"json", "settled"}
          /\ (status = 204 \/ method = "HEAD") => ops[c].pc = "settled"
          /\ ops[c].pc = "settled" =>
               /\ ops[c].outcome.state = "fulfilled"
               /\ calls[c].variant = "plain" => ops[c].outcome = Fulfilled(payload)
               /\ calls[c].variant = "with-headers" =>
                    ops[c].outcome = Fulfilled([data |-> payload, headers |-> headers])
               /\ net[c].inflight = 0

\* C30 witness: a HEAD through requestWithHeaders was answered 204 and
\* returned the empty payload with the response headers; no body was read.
C30_Witness ==
  \E c \in Calls :
    /\ calls[c].pc = "done"
    /\ calls[c].variant = "with-headers"
    /\ calls[c].options.method = "HEAD"
    /\ net[c].last = Answered(204)
    /\ calls[c].outcome = Fulfilled([data |-> Undefined, headers |-> ResponseHeaders(c, 0)])


\* ---------------------------------------------------------------------------
\* Termination of a logical call (http.ts:50-69, 99-187, 205-230).
\*
\* SpecLive: two concurrent calls as in Spec, with `retries` 0 or 1 so that a
\* failed attempt can be followed by a backoff wait and a second attempt. The fairness conditions are the ones the runtime gives: a pending
\* fetch answers, rejects or is aborted by its timeout (http.ts:101-112), a
\* pending body read settles (http.ts:149), the timer of delay() fires
\* (http.ts:193-197), and a continuation waiting on a settled promise is run by
\* the microtask queue (http.ts:62, 57). No fairness constrains request():
\* nothing obliges a caller to call.
LiveOptions == Options({"GET", "POST"}, {<<"/a">>}, {Undefined}, {Undefined},
                       {Some(0), Some(1)}, {Undefined})

LiveCalls == {c \in Calls : c <= 2}

AttemptEnds(c) ==
  \/ \E status \in ConcStatuses : FetchResolved(c, status)
  \/ \E name \in ConcFailures : FetchRejected(c, name)

BodyRead(c) == \E parsed \in BOOLEAN : JsonSettled(c, parsed)

NextLive ==
  \E c \in LiveCalls :
    \/ \E v \in {"plain", "with-headers"}, o \in LiveOptions : request(c, v, o)
    \/ AttemptEnds(c)
    \/ BodyRead(c)
    \/ DelayElapsed(c)
    \/ AwaitResumed(c)
    \/ Adopted(c)

Fairness ==
  \A c \in LiveCalls :
    /\ WF_vars(AttemptEnds(c))
    /\ WF_vars(BodyRead(c))
    /\ WF_vars(DelayElapsed(c))
    /\ WF_vars(AwaitResumed(c))
    /\ WF_vars(Adopted(c))

SpecLive == Init /\ [][NextLive]_vars /\ Fairness

\* The call has returned to its caller with a payload or a typed error.
ReturnedTyped(c) ==
  /\ calls[c].pc = "done"
  /\ \/ calls[c].outcome.state = "fulfilled"
     \/ /\ calls[c].outcome.state = "rejected"
        /\ calls[c].outcome.error.sdk

ConditionalNotModified(c) ==
  LET op == calls[c].promise
  IN  net[op].last = Answered(304) => net[op].sent[1].ifNoneMatch # Undefined

\* C32: a sessions.read(p, s) called without a validator while the cache holds
\* no live entry for p/s never returns null, whatever other reads of the same
\* session run concurrently.
C32_UnvalidatedReadNeverNull ==
  [][\A c \in Calls :
       ( /\ ReadReturned(c)
         /\ facade[c].ifNoneMatch = Undefined
         /\ facade[c].found = Undefined
         /\ ConditionalNotModified(c) ) =>
         facade'[c].result # Fulfilled(Null)]_vars

\* ---------------------------------------------------------------------------
\* Network calls after a 2xx response (http.ts:136-161, 294-325).

\* An attempt of invocation c has received a 2xx response.
Received2xx(c) == \E e \in net[c].earlier \cup {net[c].last} : ok(e.status)

\* C33: once an attempt of a logical call has received a 2xx response, no
\* further network call is made for that call, whatever happens while the body
\* of the response is read or parsed.
C33_NoCallAfterSuccess ==
  [][\A c \in Calls : Received2xx(c) => net'[c].count = net[c].count]_vars

\* ---------------------------------------------------------------------------
\* The pending-request table and its initiators (http.ts:50-66, 205-227).

\* Call c started the shared operation for key k and has not yet resumed from
\* `await requestPromise`.
Initiator(c, k) ==
  /\ calls[c].pc = "awaiting"
  /\ requestKey(calls[c].variant, calls[c].options) = k

\* No call is in progress.
Quiescent == \A c \in Calls : calls[c].pc \in {"idle", "done"}

PendingTableExact ==
  /\ \A k \in DOMAIN requestQueue : Initiator(requestQueue[k], k)
  /\ \A c \in Calls :
       calls[c].pc = "awaiting" =>
         LET k == requestKey(calls[c].variant, calls[c].options)
         IN  /\ k \in DOMAIN requestQueue
             /\ requestQueue[k] = c
  /\ Quiescent => requestQueue = <<>>

\* Every entry that leaves the table is removed by the resumption of the call
\* that put it there.
OwnEntryRemoved ==
  \A k \in DOMAIN requestQueue :
    k \notin DOMAIN requestQueue' =>
      /\ Initiator(requestQueue[k], k)
      /\ calls'[requestQueue[k]].pc = "done"

Shaped(c) ==
  LET op == calls[c].promise
      data == ResponseBody(op, LastIndex(op))
  IN  IF calls[c].variant = "with-headers"
      THEN [data |-> data, headers |-> ResponseHeaders(op, LastIndex(op))]
      ELSE data

\* C35: a GET through request() and a GET through requestWithHeaders() for the
\* same URL never share an in-flight operation: each call waits on an operation
\* started through its own function, so two such calls issued concurrently are
\* two network operations, and a call that is fulfilled receives the payload in
\* the shape of its own function.
C35_VariantsNeverShare ==
  \A c \in Calls :
    Issued(c) =>
      /\ HasOp(calls[c].promise)
      /\ calls[calls[c].promise].variant = calls[c].variant
      /\ (calls[c].pc = "done" /\ calls[c].outcome.state = "fulfilled") =>
           calls[c].outcome.value = Shaped(c)

\* C35 witness: a plain GET and a GET with headers of the same URL are in
\* flight at once as two operations, a third call has joined the one of its own
\* function and has received the {data, headers} pair while the plain GET is
\* still being answered.
C35_Witness ==
  \E c, d, e \in Calls :
    /\ calls[c].variant = "plain" /\ calls[c].options.method = "GET"
    /\ calls[d].variant = "with-headers" /\ calls[d].options.method = "GET"
    /\ ops[c].pc = "fetch"
    /\ calls[d].pc = "awaiting"
    /\ calls[e].promise = d /\ e # d
    /\ calls[e].pc = "done"
    /\ calls[e].outcome = Fulfilled([data |-> ResponseBody(d, 0),
                                     headers |-> ResponseHeaders(d, 0)])

\* ---------------------------------------------------------------------------
\* The cache with any key and any capacity (http.ts:375-378, 423-450, 473-513).
\*
\* SpecKeys: an LRUCache of capacity 0, 1 or 2 used directly through its API
\* with the empty string and the keys of two sessions, while time passes from
\* 0 to MaxNow.
KeySizes == {0, 1, 2}
AnyKeys == {<<>>, cacheKey("p1", "s1"), cacheKey("p1", "s2")}
KeyPayloads == {<<"d1", Undefined>>}

InitKeys ==
  /\ InitHTTP
  /\ InitResources
  /\ InitOther
  /\ \E m \in KeySizes : cache = LRUCache([maxSize |-> Some(m), defaultTTL |-> Some(2)])
  /\ now = 0
  /\ returned = NoCall

NextKeys ==
  \/ \E k \in AnyKeys, d \in KeyPayloads, ttl \in CacheTTLs : set(k, d[1], d[2], ttl)
  \/ \E k \in AnyKeys : get(k)
  \/ \E k \in AnyKeys : getEntry(k)
  \/ \E k \in AnyKeys : has(k)
  \/ \E k \in AnyKeys : delete(k)
  \/ clear
  \/ \E re \in CachePatterns : invalidatePattern(re)
  \/ \E t \in 0 .. MaxNow : TimePasses(t)

SpecKeys == InitKeys /\ [][NextKeys]_vars

\* The use order lists the keys of the Map, each once.
AccessOrderExact(c) ==
  /\ Range(c.accessOrder) = DOMAIN c.cache
  /\ Len(c.accessOrder) = Cardinality(DOMAIN c.cache)

\* C36: after any sequence of set, get, getEntry, has, delete, clear and
\* invalidatePattern calls that have returned, on any keys, the empty string
\* included, the access-order list holds exactly the keys present in the Map,
\* each exactly once.
C36_AccessOrderMatchesMap == ~Spinning(cache) => AccessOrderExact(cache)

\* C37: set returns for every key, the empty string included, and every
\* capacity from 0 on: its eviction loop is never left turning with more
\* entries in the Map than maxSize.
C37_SetTerminates ==
  [][CallOf({"set"}) => ~Spinning(cache') /\ CacheSize(cache') <= cache'.maxSize]_vars

\* ---------------------------------------------------------------------------
\* What reading does to an entry (http.ts:383-418, 455-468).

\* C38: get, getEntry and has on a live entry leave its payload, validator,
\* creation timestamp and ttl as they are, and has leaves the use order as it
\* is; an entry that is held before and after a step with another timestamp or
\* ttl was set by that step.
C38_ReadingKeepsEntries ==
  [][/\ \A k \in DOMAIN cache.cache :
          LET e == cache.cache[k]
          IN  /\ ( /\ CallOf({"get", "getEntry", "has"})
                   /\ returned'.key = k
                   /\ ~Expired(e, now) ) =>
                   /\ HeldAfter(k)
                   /\ cache'.cache[k].data = e.data
                   /\ cache'.cache[k].etag = e.etag
                   /\ cache'.cache[k].timestamp = e.timestamp
                   /\ cache'.cache[k].ttl = e.ttl
                   /\ returned'.op = "has" => cache'.accessOrder = cache.accessOrder
              /\ ( /\ HeldAfter(k)
                   /\ \/ cache'.cache[k].timestamp # e.timestamp
                      \/ cache'.cache[k].ttl # e.ttl ) =>
                   (CallOf({"set"}) /\ returned'.key = k)]_vars

\* C38 witness: an entry with a validator that was set at an earlier time was
\* read by getEntry, which returned it; it is held with the timestamp and the
\* ttl of its set.
C38_Witness ==
  /\ returned.op = "getEntry"
  /\ Held(returned.key)
  /\ returned.ret = Some(cache.cache[returned.key])
  /\ cache.cache[returned.key].etag = Some("e2")
  /\ cache.cache[returned.key].timestamp < now
  /\ cache.cache[returned.key].ttl = 2

\* ---------------------------------------------------------------------------
\* Sessions.write and Sessions.delete (part_009:35-63, 193-200).

\* The RequestOptions Sessions.write passes to requestWithHeaders().
SessionWriteOptions(projectId, sessionId, idempotencyKey) ==
  [method |-> "PUT",
   path |-> <<"/api/v1/projects/", projectId, "/sessions/", sessionId>>,
   timeoutMs |-> Undefined, idempotencyKey |-> idempotencyKey, retries |-> Undefined,
   headers |-> Undefined]

\* The RequestOptions Sessions.delete passes to request().
SessionDeleteOptions(projectId, sessionId) ==
  [method |-> "DELETE",
   path |-> <<"/api/v1/projects/", projectId, "/sessions/", sessionId>>,
   timeoutMs |-> Undefined, idempotencyKey |-> Undefined, retries |-> Undefined,
   headers |-> Undefined]

\* A call of the facade other than read, up to its await.
Waiting(fn, projectId, sessionId) ==
  [pc |-> "waiting", fn |-> fn, projectId |-> projectId, sessionId |-> sessionId,
   ifNoneMatch |-> Undefined, found |-> Undefined, prior |-> {}, result |-> Pending]

\* Sessions.write(projectId, data, {sessionId, idempotencyKey}) up to its await.
write(c, projectId, sessionId, idempotencyKey) ==
  /\ Requested(c, "with-headers", SessionWriteOptions(projectId, sessionId, idempotencyKey))
  /\ facade' = [facade EXCEPT ![c] = Waiting("sessions.write", projectId, sessionId)]
  /\ UNCHANGED <<cache, now, returned, served, applied, otherVars>>

\* Mutant of WriteResumed: a successful write drops the cached copy.
WriteResumed_Invalidating(c, content) ==
  /\ facade[c].pc = "waiting"
  /\ facade[c].fn = "sessions.write"
  /\ calls[c].pc = "done"
  /\ facade' = [facade EXCEPT ![c].pc = "done",
                              ![c].result = IF calls[c].outcome.state = "fulfilled"
                                            THEN Fulfilled(SessionResult(content))
                                            ELSE Rejected(calls[c].outcome.error)]
  /\ cache' = IF calls[c].outcome.state = "fulfilled"
              THEN CacheDelete(cache, cacheKey(facade[c].projectId, facade[c].sessionId))
              ELSE cache
  /\ UNCHANGED <<httpVars, now, returned, served, applied, otherVars>>

\* Sessions.write after its await: the data of the response and the etag
\* header, if any, are returned; an error is passed on.
WriteResumed(c, content) ==
  /\ facade[c].pc = "waiting"
  /\ facade[c].fn = "sessions.write"
  /\ calls[c].pc = "done"
  /\ facade' = [facade EXCEPT ![c].pc = "done",
                              ![c].result = IF calls[c].outcome.state = "fulfilled"
                                            THEN Fulfilled(SessionResult(content))
                                            ELSE Rejected(calls[c].outcome.error)]
  /\ UNCHANGED <<httpVars, cache, now, returned, served, applied, otherVars>>

\* Sessions.delete(projectId, sessionId) up to its await.
deleteSession(c, projectId, sessionId) ==
  /\ Requested(c, "plain", SessionDeleteOptions(projectId, sessionId))
  /\ facade' = [facade EXCEPT ![c] = Waiting("sessions.delete", projectId, sessionId)]
  /\ UNCHANGED <<cache, now, returned, served, applied, otherVars>>

\* Sessions.delete after its await: `return response.success`.
DeleteResumed(c, success) ==
  /\ facade[c].pc = "waiting"
  /\ facade[c].fn = "sessions.delete"
  /\ calls[c].pc = "done"
  /\ facade' = [facade EXCEPT ![c].pc = "done",
                              ![c].result = IF calls[c].outcome.state = "fulfilled"
                                            THEN Fulfilled([success |-> success])
                                            ELSE Rejected(calls[c].outcome.error)]
  /\ UNCHANGED <<httpVars, cache, now, returned, served, applied, otherVars>>

\* SpecSessions: three calls of sessions.read (without validator),
\* sessions.write and sessions.delete for one session on a client with caching
\* enabled, one after the other or concurrently; the endpoint answers 200 (with
\* an ETag header on reads) or 304; the cache is cleared at any moment, and
\* time passes beyond the time-to-live.
SessionCalls == {c \in Calls : c <= 3}
SessionStatuses == {200, 304}
SessionContents ==
  {[etag |-> Some("e1"), session |-> "v1"], [etag |-> Some("e2"), session |-> "v2"]}

NextSessions ==
  \/ \E c \in SessionCalls :
       \/ read(c, "p1", "s1", Undefined)
       \/ write(c, "p1", "s1", Undefined)
       \/ deleteSession(c, "p1", "s1")
       \/ \E status \in SessionStatuses : FetchResolved(c, status)
       \/ JsonSettled(c, TRUE)
       \/ AwaitResumed(c)
       \/ Adopted(c)
       \/ \E content \in SessionContents : ReadResumed(c, content)
       \/ \E content \in SessionContents : WriteResumed(c, content)
       \/ \E success \in BOOLEAN : DeleteResumed(c, success)
  \/ clearCache
  \/ \E t \in ReadTimes : TimePasses(t)

SpecSessions == InitRead /\ [][NextSessions]_vars

\* The step belongs to a call of sessions.write or sessions.delete by c: the
\* call up to its await, or its return.
WriteOrDeleteStep(c) ==
  /\ facade'[c] # facade[c]
  /\ facade'[c].fn \in {"sessions.write", "sessions.delete"}

\* A write or a delete of the session of read c has returned successfully.
ChangedBefore(c) ==
  \E d \in Calls :
    /\ facade[d].pc = "done"
    /\ facade[d].fn \in {"sessions.write", "sessions.delete"}
    /\ facade[d].sessionId = facade'[c].sessionId
    /\ facade[d].result.state = "fulfilled"

\* C39: sessions.write and sessions.delete leave the response cache as it is:
\* no step of theirs changes it, and a read without validator that follows a
\* successful write or delete of its session and finds the entry live sends the
\* entry's ETag as If-None-Match in the request it issues.
C39_WritesLeaveCache ==
  [][\A c \in Calls :
       /\ WriteOrDeleteStep(c) => cache' = cache
       /\ ( /\ ReadCalled(c)
            /\ facade'[c].fn = "sessions.read"
            /\ ChangedBefore(c)
            /\ Held(cacheKey(facade'[c].projectId, facade'[c].sessionId))
            /\ ~Expired(cache.cache[cacheKey(facade'[c].projectId, facade'[c].sessionId)], now)
            /\ ops'[c].pc # "none" ) =>
            net'[c].sent[1].ifNoneMatch =
              cache.cache[cacheKey(facade'[c].projectId, facade'[c].sessionId)].etag]_vars

\* C39 witness: a read cached the session with ETag e1; a delete of the
\* session succeeded; the read that followed sent If-None-Match: e1, was
\* answered 304 and returned the cached session.
C39_Witness ==
  \E c, d \in Calls :
    /\ facade[d].pc = "done"
    /\ facade[d].fn = "sessions.delete"
    /\ facade[d].result.state = "fulfilled"
    /\ d < c
    /\ facade[c].pc = "done"
    /\ facade[c].fn = "sessions.read"
    /\ net[c].count = 1
    /\ net[c].sent[1].ifNoneMatch = Some("e1")
    /\ net[c].last = Answered(304)
    /\ facade[c].result = Fulfilled([session |-> "v1", etag |-> Some("e1")])

\* ---------------------------------------------------------------------------
\* The retryCount of a terminal error (http.ts:113-121, 163-186).

\* Call c was rejected with a typed error whose context records as retryCount
\* the number of network calls made for it minus one.
CountsRetries(c) ==
  ops[c].outcome.error.context.retryCount = net[c].count - 1

C40_RetryCountOfAttempts ==
  \A c \in Calls :
    (Settled(c) /\ ops[c].outcome.state = "rejected") =>
      IF net[c].count > 0 THEN CountsRetries(c)
      ELSE /\ Retries(c) < 0
           /\ ops[c].outcome.error.context.retryCount = Retries(c) + 1

====
